---- MODULE Spec2Model ----
(***************************************************************************)
(* WildPass flight-search backend: the /api/trip-planner handler           *)
(* (backend/app.py, trip_planner), its search-window loop, the leg fetch   *)
(* it issues through the flight client and the combination engine          *)
(* find_optimal_trips it invokes on the accumulated pool.                  *)
(*                                                                         *)
(* Dates are day ordinals; a datetime is a number of hours since the       *)
(* ordinal-0 midnight, as datetime/timedelta arithmetic treats it.  Leg    *)
(* instants are in minutes.                                                *)
(***************************************************************************)
EXTENDS Integers, Sequences, FiniteSets, TLC

VARIABLES
    FLIGHT_API_ENABLED, \* app.py:96-103, true iff the SerpApi client was built
    data,               \* the JSON body of the request
    pc,                 \* position of the handler
    depart_dt,          \* app.py:487
    trip_hours,         \* app.py:488
    days_searched,      \* app.py:492
    return_dates,       \* app.py:502-508
    ri,                 \* index of the next element of return_dates (for loop, app.py:514)
    batch_flights,      \* app.py:513
    all_flights,        \* app.py:490
    optimal_trips,      \* app.py:491
    response,           \* what the handler returned
    fetch_log,          \* (departure, return) date pairs fetched for the current offset
    fetch_count,        \* number of flight_client.search_flights calls so far
    engine_calls,       \* number of find_optimal_trips calls so far
    engine_log,         \* last call to find_optimal_trips: its pool and its result
    fetched,            \* every leg search_flights has returned so far, in order
    nonempty_fetches,   \* number of fetches that returned at least one leg
    adapter,            \* the adapter class at work (serpapi, kiwi, aviationstack, aerodatabox)
    raw,                \* one upstream result handed to the adapter's converter
    flight,             \* what the converter emitted for it
    route_i,            \* search_flights of an adapter: index of the next route
    adapter_all_flights,\* search_flights of an adapter: its all_flights list
    route_log,          \* what the upstream answered for each route queried so far
    blackout_log,       \* the calls of the blackout evaluation and their results
    flight_num,         \* aerodatabox_api.py:226-229, the flight number being normalized
    icao_log,           \* the calls of _icao_to_iata so far: argument and result
    _startup_done,      \* app.py:61
    _startup_lock,      \* app.py:62, the request holding the lock, 0 when free
    init_pc,            \* position of each request in _lazy_init
    update_threads,     \* number of update_if_needed threads started (app.py:83)
    flask_cache,        \* app.py:58, the entries of the cache by key
    search_log,         \* the /api/search requests answered so far
    events              \* the events search_flights_stream.generate has yielded

planner_vars == <<FLIGHT_API_ENABLED, data, pc, depart_dt, trip_hours, days_searched,
                  return_dates, ri, batch_flights, all_flights, optimal_trips, response,
                  fetch_log, fetch_count, engine_calls, engine_log, fetched,
                  nonempty_fetches>>

adapter_vars == <<adapter, raw, flight, route_i, adapter_all_flights, route_log,
                  blackout_log>>

service_vars == <<flight_num, icao_log, _startup_done, _startup_lock, init_pc,
                  update_threads, flask_cache, search_log, events>>

vars == <<planner_vars, adapter_vars, service_vars>>

-----------------------------------------------------------------------------
(* Bounds of the model *)

MaxNonEmptyFetches == 2
MaxPoolLegs == 10
MaxEnginePool == 3

-----------------------------------------------------------------------------
(* Program constants *)

max_days_to_search == 30
TopResults == 20
MinutesPerDay == 1440
MinutesPerHour == 60
HoursPerDay == 24

-----------------------------------------------------------------------------
(* JSON values and Python truthiness *)

None == [t |-> "none"]
Num(n) == [t |-> "num", v |-> n]
Str(s) == [t |-> "str", v |-> s]
List(l) == [t |-> "list", v |-> l]
DateStr(d) == [t |-> "date", day |-> d]      \* the string 'YYYY-MM-DD' of day ordinal d
Bool(b) == [t |-> "bool", v |-> b]

\* `not x` of Python
Falsy(x) ==
    CASE x.t = "none" -> TRUE
      [] x.t = "num"  -> x.v = 0
      [] x.t = "str"  -> x.v = ""
      [] x.t = "list" -> x.v = <<>>
      [] x.t = "bool" -> ~x.v
      [] x.t = "text" -> x.kind = ""
      [] OTHER        -> FALSE

\* dict.get(key, default): an absent key is held as None in the record
Get(d, key, default) == IF d[key] = None THEN default ELSE d[key]

IsDateString(x) == x.t = "date"
IsNumber(x) == x.t = "num"

\* datetime.strptime(s, '%Y-%m-%d'): midnight of the day, in hours
StrpTime(x) == x.day * HoursPerDay

\* dt.strftime('%Y-%m-%d'): the calendar date the instant falls on
StrfTime(dt) == DateStr(dt \div HoursPerDay)

\* timedelta(days=n) and timedelta(hours=h), in hours
TimedeltaDays(n) == n * HoursPerDay
TimedeltaHours(h) == h

-----------------------------------------------------------------------------
(* Flight legs and trip candidates *)

Leg(role, dep, dur, stops, price) ==
    [role |-> role, dep |-> dep, arr |-> dep + dur, stops |-> stops, price |-> price]

NoLeg == [role |-> "none"]

ToMinutes(n, unit) == n * (IF unit = "days" THEN MinutesPerDay ELSE MinutesPerHour)

OutboundPool(flight_pool) == SelectSeq(flight_pool, LAMBDA l : l.role = "out")
ReturnPool(flight_pool) == SelectSeq(flight_pool, LAMBDA l : l.role = "ret")

\* total trip duration: outbound departure to return arrival, or the outbound
\* leg's own duration when there is no return leg
TripDuration(out, ret) ==
    IF ret = NoLeg THEN out.arr - out.dep ELSE ret.arr - out.dep

BothNonstop(out, ret) ==
    out.stops = 0 /\ (ret = NoLeg \/ ret.stops = 0)

CombinedPrice(out, ret) ==
    IF ret = NoLeg THEN out.price ELSE out.price + ret.price

TripCandidate(out, ret) ==
    [outbound |-> out, return |-> ret,
     duration |-> TripDuration(out, ret),
     nonstop  |-> BothNonstop(out, ret),
     price    |-> CombinedPrice(out, ret)]

\* an engine that only builds round trips: nothing without a return leg
BuildCandidates_RoundTripOnly(outs, rets) ==
    [k \in 1..(Len(outs) * Len(rets)) |->
        TripCandidate(outs[((k - 1) \div Len(rets)) + 1],
                      rets[((k - 1) % Len(rets)) + 1])]

\* step 1: the cross product, outbound-major; the outbound pool alone when the
\* return pool is empty
BuildCandidates(outs, rets) ==
    IF rets = <<>>
    THEN [i \in 1..Len(outs) |-> TripCandidate(outs[i], NoLeg)]
    ELSE [k \in 1..(Len(outs) * Len(rets)) |->
            TripCandidate(outs[((k - 1) \div Len(rets)) + 1],
                          rets[((k - 1) % Len(rets)) + 1])]

\* step 2: the maximum-duration constraint
WithinMax(c, max_duration, max_duration_unit) ==
    max_duration = None \/ c.duration <= ToMinutes(max_duration.v, max_duration_unit)

Abs(x) == IF x < 0 THEN -x ELSE x

\* step 3: the score terms
DurationDelta(c, target) == Abs(c.duration - target)
NonstopViolation(c, nonstop_preferred) == IF nonstop_preferred /\ ~c.nonstop THEN 1 ELSE 0

\* price ranked before the nonstop preference
SortKey_PriceFirst(c, target, nonstop_preferred) ==
    <<DurationDelta(c, target), c.price, NonstopViolation(c, nonstop_preferred)>>

SortKey(c, target, nonstop_preferred) ==
    <<DurationDelta(c, target), NonstopViolation(c, nonstop_preferred), c.price>>

\* k1 <= k2 in the lexicographic order of tuples
KeyLE(k1, k2) ==
    \/ k1[1] < k2[1]
    \/ k1[1] = k2[1] /\ k1[2] < k2[2]
    \/ k1[1] = k2[1] /\ k1[2] = k2[2] /\ k1[3] <= k2[3]

\* step 4: stable ascending sort by the key.  Rank(keys, i) is the place the
\* i-th candidate takes: after every candidate of smaller key and after the
\* earlier candidates of equal key.
Rank(keys, i) ==
    Cardinality({j \in DOMAIN keys :
        \/ ~KeyLE(keys[i], keys[j])
        \/ j <= i /\ KeyLE(keys[j], keys[i]) /\ KeyLE(keys[i], keys[j])})

\* the function f of domain 1..n as a tuple
AsTuple(f) == f \o <<>>

KeysOf(t, target, nonstop_preferred) ==
    AsTuple([i \in 1..Len(t) |-> SortKey(t[i], target, nonstop_preferred)])

RanksOf(keys) == AsTuple([i \in 1..Len(keys) |-> Rank(keys, i)])

PlaceByRank(t, rank) ==
    AsTuple([p \in 1..Len(t) |-> t[CHOOSE i \in 1..Len(t) : rank[i] = p]])

\* the candidates, their keys and their ranks are each bound once, so that none
\* of them is computed again for every element
SortCandidates(s, target, nonstop_preferred) ==
    CHOOSE r \in UNION { UNION { { PlaceByRank(t, rank) : rank \in {RanksOf(keys)} } :
                                 keys \in {KeysOf(t, target, nonstop_preferred)} } :
                         t \in {s} } : TRUE

\* an engine whose list is never empty: "no trip" is reported as an entry
find_optimal_trips_NeverEmpty(flight_pool, trip_length, trip_length_unit, nonstop_preferred, max_duration, max_duration_unit) ==
    LET target == ToMinutes(trip_length.v, trip_length_unit)
        cands  == BuildCandidates(OutboundPool(flight_pool), ReturnPool(flight_pool))
        kept   == SelectSeq(cands, LAMBDA c : WithinMax(c, max_duration, max_duration_unit))
    IN  IF kept = <<>>
        THEN <<[outbound |-> NoLeg, return |-> NoLeg, duration |-> 0, nonstop |-> TRUE, price |-> 0]>>
        ELSE SortCandidates(kept, target, nonstop_preferred)

find_optimal_trips(flight_pool, trip_length, trip_length_unit, nonstop_preferred, max_duration, max_duration_unit) ==
    LET target == ToMinutes(trip_length.v, trip_length_unit)
        cands  == BuildCandidates(OutboundPool(flight_pool), ReturnPool(flight_pool))
        kept   == SelectSeq(cands, LAMBDA c : WithinMax(c, max_duration, max_duration_unit))
    IN  SortCandidates(kept, target, nonstop_preferred)

-----------------------------------------------------------------------------
(* What the upstream flight source may answer to one search_flights call *)

OutA == Leg("out", 480, 300, 0, 80)
OutB == Leg("out", 540, 300, 0, 50)
OutC == Leg("out", 600, 120, 1, 30)
OutD == Leg("out", 420, 240, 0, 60)
OutE == Leg("out", 700, 240, 0, 45)
OutLong == Leg("out", 480, 4000, 2, 40)
RetA == Leg("ret", 4800, 150, 0, 70)
RetB == Leg("ret", 1500, 150, 1, 20)
RetC == Leg("ret", 6300, 180, 0, 90)
RetD == Leg("ret", 3200, 240, 0, 55)
RetE == Leg("ret", 7700, 130, 1, 45)

UpstreamBatches ==
    { <<>>,
      <<RetA>>,
      <<OutLong>>,
      <<OutA, OutB, OutC, OutD>>,
      <<OutA, OutB, OutC, OutD, OutLong, RetA, RetB, RetC, RetD, RetE>> }

-----------------------------------------------------------------------------
(* The requests the model sends *)

\* bodies that exercise the validation of the required fields
ValidationBodies ==
    [ origins             : {None, List(<<>>), List(<<"DEN">>)},
      destinations        : {None, List(<<"LAS">>)},
      departureDate       : {None, Str(""), Str("15/03/2026"), DateStr(100)},
      tripLength          : {None, Num(0), Num(1), Str("abc")},
      tripLengthUnit      : {None},
      nonstopPreferred    : {None},
      maxTripDuration     : {None},
      maxTripDurationUnit : {None} ]

\* well-formed bodies that exercise the search
SearchBodies ==
    { b \in [ origins             : {List(<<"DEN">>)},
              destinations        : {List(<<"LAS">>)},
              departureDate       : {DateStr(100)},
              tripLength          : {Num(1), Num(3)},
              tripLengthUnit      : {None, Str("hours")},
              nonstopPreferred    : {None, Bool(TRUE)},
              maxTripDuration     : {None, Num(2)},
              maxTripDurationUnit : {None, Str("hours")} ] :
        /\ b.maxTripDuration = None => b.maxTripDurationUnit = None
        /\ b.tripLength = Num(1) => b.tripLengthUnit = None }

RequestBodies == ValidationBodies \cup SearchBodies

\* no adapter call and no blackout evaluation is under way
AdapterIdle ==
    /\ adapter = "none"
    /\ raw = None
    /\ flight = None
    /\ route_i = 0
    /\ adapter_all_flights = <<>>
    /\ route_log = <<>>
    /\ blackout_log = <<>>

\* no status lookup, no request and no stream is under way; the process has
\* not served its first request
ServiceIdle ==
    /\ flight_num = None
    /\ icao_log = <<>>
    /\ _startup_done = FALSE
    /\ _startup_lock = 0
    /\ init_pc = <<>>
    /\ update_threads = 0
    /\ flask_cache = <<>>
    /\ search_log = <<>>
    /\ events = <<>>

Init ==
    /\ FLIGHT_API_ENABLED \in BOOLEAN
    /\ data \in RequestBodies
    /\ pc = "start"
    /\ depart_dt = 0
    /\ trip_hours = 0
    /\ days_searched = 0
    /\ return_dates = <<>>
    /\ ri = 1
    /\ batch_flights = <<>>
    /\ all_flights = <<>>
    /\ optimal_trips = <<>>
    /\ response = None
    /\ fetch_log = <<>>
    /\ fetch_count = 0
    /\ engine_calls = 0
    /\ engine_log = [pool |-> <<>>, result |-> <<>>]
    /\ fetched = <<>>
    /\ nonempty_fetches = 0
    /\ AdapterIdle
    /\ ServiceIdle

-----------------------------------------------------------------------------
(* trip_planner, app.py:461-559 *)

origins == Get(data, "origins", List(<<>>))
destinations == Get(data, "destinations", List(<<>>))
departure_date == Get(data, "departureDate", None)
trip_length == Get(data, "tripLength", None)
trip_length_unit == Get(data, "tripLengthUnit", Str("days")).v
nonstop_preferred == Get(data, "nonstopPreferred", Bool(FALSE)).v
max_trip_duration == Get(data, "maxTripDuration", None)
max_trip_duration_unit == Get(data, "maxTripDurationUnit", Str("days")).v

\* the validation of /api/search, which does not look at tripLength
MissingRequired_NoTripLength ==
    Falsy(origins) \/ Falsy(destinations) \/ Falsy(departure_date)

\* app.py:481
MissingRequired ==
    Falsy(origins) \/ Falsy(destinations) \/ Falsy(departure_date) \/ Falsy(trip_length)

\* strptime (app.py:487) or float (app.py:488) raises; caught at app.py:553
ParseRaises == ~IsDateString(departure_date) \/ ~IsNumber(trip_length)

ErrorResponse(status) == [status |-> status]

loop_vars == <<days_searched, return_dates, ri, batch_flights, all_flights, optimal_trips>>
ghost_vars == <<fetch_log, fetch_count, engine_calls, engine_log, fetched,
                nonempty_fetches>>

\* app.py:469-488
Validate ==
    /\ pc = "start"
    /\ IF MissingRequired
       THEN /\ response' = ErrorResponse(400)
            /\ pc' = "done"
            /\ UNCHANGED <<depart_dt, trip_hours>>
       ELSE IF ParseRaises
       THEN /\ response' = ErrorResponse(500)
            /\ pc' = "done"
            /\ UNCHANGED <<depart_dt, trip_hours>>
       ELSE /\ depart_dt' = StrpTime(departure_date)
            /\ trip_hours' = trip_length.v * (IF trip_length_unit = "days" THEN HoursPerDay ELSE 1)
            /\ pc' = "while"
            /\ UNCHANGED response
    /\ UNCHANGED <<FLIGHT_API_ENABLED, data>>
    /\ UNCHANGED loop_vars
    /\ UNCHANGED ghost_vars
    /\ UNCHANGED adapter_vars
    /\ UNCHANGED service_vars

\* the loop condition letting one offset too many through
WhileCondition_OffByOne(trips, days) == Len(trips) = 0 /\ days <= max_days_to_search

\* app.py:496, the loop condition
WhileCondition(trips, days) == Len(trips) = 0 /\ days < max_days_to_search

\* a window that stops one day after the target
ReturnDates_Narrow(target_return) ==
    << StrfTime(target_return - TimedeltaDays(2)),
       StrfTime(target_return - TimedeltaDays(1)),
       StrfTime(target_return),
       StrfTime(target_return + TimedeltaDays(1)) >>

\* app.py:502-508
ReturnDates(target_return) ==
    << StrfTime(target_return - TimedeltaDays(2)),
       StrfTime(target_return - TimedeltaDays(1)),
       StrfTime(target_return),
       StrfTime(target_return + TimedeltaDays(1)),
       StrfTime(target_return + TimedeltaDays(2)) >>

current_depart_dt == depart_dt + TimedeltaDays(days_searched)
current_departure_date == StrfTime(current_depart_dt)
target_return == current_depart_dt + TimedeltaHours(trip_hours)

\* app.py:496-513
WhileTest ==
    /\ pc = "while"
    /\ IF WhileCondition(optimal_trips, days_searched)
       THEN /\ return_dates' = ReturnDates(target_return)
            /\ batch_flights' = <<>>
            /\ ri' = 1
            /\ fetch_log' = <<>>
            /\ pc' = "for"
       ELSE /\ pc' = "return"
            /\ UNCHANGED <<return_dates, batch_flights, ri, fetch_log>>
    /\ UNCHANGED <<FLIGHT_API_ENABLED, data, depart_dt, trip_hours, days_searched,
                   all_flights, optimal_trips, response,
                   fetch_count, engine_calls, engine_log, fetched, nonempty_fetches>>
    /\ UNCHANGED adapter_vars
    /\ UNCHANGED service_vars

\* app.py:514-524, one iteration of the for loop with a flight client
FetchLegs ==
    /\ pc = "for"
    /\ ri <= Len(return_dates)
    /\ FLIGHT_API_ENABLED
    /\ \E flights \in UpstreamBatches :
          /\ flights # <<>> => nonempty_fetches < MaxNonEmptyFetches
          /\ Len(all_flights) + Len(batch_flights) + Len(flights) <= MaxPoolLegs
          /\ batch_flights' = batch_flights \o flights
          /\ fetched' = fetched \o flights
          /\ nonempty_fetches' = nonempty_fetches + (IF flights # <<>> THEN 1 ELSE 0)
    /\ fetch_log' = Append(fetch_log, [departure_date |-> current_departure_date,
                                       return_date |-> return_dates[ri]])
    /\ fetch_count' = fetch_count + 1
    /\ ri' = ri + 1
    /\ UNCHANGED <<FLIGHT_API_ENABLED, data, pc, depart_dt, trip_hours, days_searched,
                   return_dates, all_flights, optimal_trips, response,
                   engine_calls, engine_log>>
    /\ UNCHANGED adapter_vars
    /\ UNCHANGED service_vars

\* the for loop generating a mock leg when there is no flight client
SkipFetch_MockLegs ==
    /\ pc = "for"
    /\ ri <= Len(return_dates)
    /\ ~FLIGHT_API_ENABLED
    /\ ri' = ri + 1
    /\ batch_flights' = IF Len(all_flights) + Len(batch_flights) < MaxPoolLegs
                        THEN Append(batch_flights, OutA) ELSE batch_flights
    /\ UNCHANGED <<FLIGHT_API_ENABLED, data, pc, depart_dt, trip_hours, days_searched,
                   return_dates, all_flights, optimal_trips, response>>
    /\ UNCHANGED ghost_vars
    /\ UNCHANGED adapter_vars
    /\ UNCHANGED service_vars

\* app.py:514-515, one iteration of the for loop without a flight client
SkipFetch ==
    /\ pc = "for"
    /\ ri <= Len(return_dates)
    /\ ~FLIGHT_API_ENABLED
    /\ ri' = ri + 1
    /\ UNCHANGED <<FLIGHT_API_ENABLED, data, pc, depart_dt, trip_hours, days_searched,
                   return_dates, batch_flights, all_flights, optimal_trips, response>>
    /\ UNCHANGED ghost_vars
    /\ UNCHANGED adapter_vars
    /\ UNCHANGED service_vars

\* the loop body without its break
BreakOnFound_NoBreak(trips) == FALSE

\* app.py:538-540
BreakOnFound(trips) == Len(trips) > 0

\* the call without the caller's maximum duration
EngineCall_NoMax(pool) ==
    find_optimal_trips(pool, trip_length, trip_length_unit, nonstop_preferred,
                       None, max_trip_duration_unit)

\* app.py:529-536, the call of the engine
EngineCall(pool) ==
    find_optimal_trips(pool, trip_length, trip_length_unit, nonstop_preferred,
                       max_trip_duration, max_trip_duration_unit)

\* the pool replaced by the batch of the current offset instead of extended
Accumulate_Replace(all, batch) == batch

\* app.py:526, all_flights.extend(batch_flights)
Accumulate(all, batch) == all \o batch

\* app.py:526-542
InvokeEngine ==
    /\ pc = "for"
    /\ ri > Len(return_dates)
    /\ LET pool == Accumulate(all_flights, batch_flights)
           trips == EngineCall(pool)
       IN  /\ all_flights' = pool
           /\ optimal_trips' = trips
           /\ engine_log' = [pool |-> pool, result |-> trips]
           /\ IF BreakOnFound(trips)
              THEN /\ pc' = "return"
                   /\ UNCHANGED days_searched
              ELSE /\ pc' = "while"
                   /\ days_searched' = days_searched + 1
    /\ engine_calls' = engine_calls + 1
    /\ UNCHANGED <<FLIGHT_API_ENABLED, data, depart_dt, trip_hours,
                   return_dates, ri, batch_flights, response,
                   fetch_log, fetch_count, fetched, nonempty_fetches>>
    /\ UNCHANGED adapter_vars
    /\ UNCHANGED service_vars

Take(s, n) == SubSeq(s, 1, IF Len(s) < n THEN Len(s) ELSE n)

\* total_options counted after the truncation
SuccessResponse_CountsTruncated(trips, days) ==
    [status |-> 200,
     flights |-> Take(trips, TopResults),
     total_options |-> Len(Take(trips, TopResults)),
     target_duration |-> <<trip_length.v, trip_length_unit>>,
     days_searched |-> days + 1,
     earliest_departure |->
        IF trips # <<>> THEN StrfTime(depart_dt + TimedeltaDays(days)) ELSE None]

\* app.py:545-551
SuccessResponse(trips, days) ==
    [status |-> 200,
     flights |-> Take(trips, TopResults),
     total_options |-> Len(trips),
     target_duration |-> <<trip_length.v, trip_length_unit>>,
     days_searched |-> days + 1,
     earliest_departure |->
        IF trips # <<>> THEN StrfTime(depart_dt + TimedeltaDays(days)) ELSE None]

\* app.py:544-551
Return ==
    /\ pc = "return"
    /\ response' = SuccessResponse(optimal_trips, days_searched)
    /\ pc' = "done"
    /\ UNCHANGED <<FLIGHT_API_ENABLED, data, depart_dt, trip_hours>>
    /\ UNCHANGED loop_vars
    /\ UNCHANGED ghost_vars
    /\ UNCHANGED adapter_vars
    /\ UNCHANGED service_vars

Next ==
    \/ Validate
    \/ WhileTest
    \/ FetchLegs
    \/ SkipFetch
    \/ InvokeEngine
    \/ Return

Spec == Init /\ [][Next]_vars

\* the handler is sequential: whenever a step is possible it is eventually taken
FairSpec == Spec /\ WF_vars(Next)

-----------------------------------------------------------------------------
(* The combination engine on its own: one call of find_optimal_trips, through
   the call of app.py:529-536, on a pool and on constraints drawn from bounded
   sets *)

EngineLegs == {OutA, OutB, OutC, OutD, OutE, RetB, RetD}

RECURSIVE SeqsUpTo(_, _)
SeqsUpTo(S, n) ==
    IF n = 0 THEN {<<>>}
    ELSE LET shorter == SeqsUpTo(S, n - 1)
         IN  shorter \cup {Append(q, x) : q \in shorter, x \in S}

EngineBodies ==
    { b \in [ origins             : {List(<<"DEN">>)},
              destinations        : {List(<<"LAS">>)},
              departureDate       : {DateStr(100)},
              tripLength          : {Num(0), Num(3), Num(5)},
              tripLengthUnit      : {None, Str("hours")},
              nonstopPreferred    : {None, Bool(TRUE)},
              maxTripDuration     : {None, Num(2)},
              maxTripDurationUnit : {None, Str("hours")} ] :
        b.maxTripDuration = None => b.maxTripDurationUnit = None }

EngineInit ==
    /\ FLIGHT_API_ENABLED = TRUE
    /\ data \in EngineBodies
    /\ pc = "engine"
    /\ depart_dt = 0
    /\ trip_hours = 0
    /\ days_searched = 0
    /\ return_dates = <<>>
    /\ ri = 1
    /\ batch_flights = <<>>
    /\ all_flights \in SeqsUpTo(EngineLegs, MaxEnginePool)
    /\ optimal_trips = <<>>
    /\ response = None
    /\ fetch_log = <<>>
    /\ fetch_count = 0
    /\ engine_calls = 0
    /\ engine_log = [pool |-> <<>>, result |-> <<>>]
    /\ fetched = <<>>
    /\ nonempty_fetches = 0
    /\ AdapterIdle
    /\ ServiceIdle

ApplyEngine ==
    /\ pc = "engine"
    /\ LET trips == EngineCall(all_flights)
       IN  /\ optimal_trips' = trips
           /\ engine_log' = [pool |-> all_flights, result |-> trips]
    /\ engine_calls' = engine_calls + 1
    /\ pc' = "engine_done"
    /\ UNCHANGED <<FLIGHT_API_ENABLED, data, depart_dt, trip_hours, days_searched,
                   return_dates, ri, batch_flights, all_flights, response,
                   fetch_log, fetch_count, fetched, nonempty_fetches>>
    /\ UNCHANGED adapter_vars
    /\ UNCHANGED service_vars

EngineNext == ApplyEngine

EngineSpec == EngineInit /\ [][EngineNext]_vars

-----------------------------------------------------------------------------
(* The trip planner at rest, for the specifications of the other components *)

PlannerIdle ==
    /\ FLIGHT_API_ENABLED = FALSE
    /\ data = None
    /\ pc = "idle"
    /\ depart_dt = 0
    /\ trip_hours = 0
    /\ days_searched = 0
    /\ return_dates = <<>>
    /\ ri = 1
    /\ batch_flights = <<>>
    /\ all_flights = <<>>
    /\ optimal_trips = <<>>
    /\ response = None
    /\ fetch_log = <<>>
    /\ fetch_count = 0
    /\ engine_calls = 0
    /\ engine_log = [pool |-> <<>>, result |-> <<>>]
    /\ fetched = <<>>
    /\ nonempty_fetches = 0

-----------------------------------------------------------------------------
(* Blackout policy: evaluate(departure_date, return_date = None).  A calendar
   date 'YYYY-MM-DD' is held as its year, month and day, and ordered as the
   string is. *)

MaxBlackoutCalls == 2

Ymd(y, m, d) == [t |-> "ymd", y |-> y, m |-> m, d |-> d]

DateLE(a, b) ==
    \/ a.y < b.y
    \/ a.y = b.y /\ a.m < b.m
    \/ a.y = b.y /\ a.m = b.m /\ a.d <= b.d

Period(start, end, description) ==
    [start |-> start, end |-> end, description |-> description]

\* the calendar table, keyed by year
BlackoutTable ==
    [y \in {2026, 2027} |->
        IF y = 2026
        THEN << Period(Ymd(2026, 3, 13), Ymd(2026, 3, 22), "Spring Break"),
                Period(Ymd(2026, 12, 19), Ymd(2027, 1, 3), "Winter Holidays") >>
        ELSE << Period(Ymd(2027, 3, 12), Ymd(2027, 3, 12), "Spring Break") >>]

\* every period of the table, in the order of the years and of their lists
AllPeriods(table) == table[2026] \o table[2027]

\* a date falls within the inclusive [start, end] range of a period
InPeriod(d, p) == DateLE(p.start, d) /\ DateLE(d, p.end)

\* an evaluation that looks at the departure date only
evaluate_DepartureOnly(table, dep_date, ret_date) ==
    LET matched == SelectSeq(AllPeriods(table), LAMBDA p : InPeriod(dep_date, p))
    IN  [affected |-> matched # <<>>, periods |-> matched]

\* the annotation: the affected flag and the periods that matched
evaluate(table, dep_date, ret_date) ==
    LET matched == SelectSeq(AllPeriods(table), LAMBDA p :
                        \/ InPeriod(dep_date, p)
                        \/ ret_date # None /\ InPeriod(ret_date, p))
    IN  [affected |-> matched # <<>>, periods |-> matched]

BlackoutDates ==
    { Ymd(2026, 3, 12), Ymd(2026, 3, 13), Ymd(2026, 3, 22), Ymd(2026, 3, 23),
      Ymd(2027, 1, 2), Ymd(2027, 3, 12) }

BlackoutInit ==
    /\ PlannerIdle
    /\ AdapterIdle
    /\ ServiceIdle

EvaluateBlackout ==
    /\ Len(blackout_log) < MaxBlackoutCalls
    /\ \E d1 \in BlackoutDates, d2 \in BlackoutDates \cup {None} :
          blackout_log' = Append(blackout_log,
              [departure_date |-> d1, return_date |-> d2,
               result |-> evaluate(BlackoutTable, d1, d2)])
    /\ UNCHANGED planner_vars
    /\ UNCHANGED service_vars
    /\ UNCHANGED <<adapter, raw, flight, route_i, adapter_all_flights, route_log>>

BlackoutNext == EvaluateBlackout

BlackoutSpec == BlackoutInit /\ [][BlackoutNext]_vars

-----------------------------------------------------------------------------
(* Upstream time strings.  A string is held by its shape: a date, a separator,
   hours and minutes, seconds (-1 when the string has none) and a UTC offset
   suffix ("" when it has none) for the strings of kind "datetime"; any other
   string is held by its text (kind), and by whether it contains a space and a
   dash.  Fields are two-digit, zero-padded, as the upstream sources write them. *)

Text(kind, date, sep, h, mi, s, off, space, dash) ==
    [t |-> "text", kind |-> kind, date |-> date, sep |-> sep, h |-> h, mi |-> mi,
     s |-> s, off |-> off, space |-> space, dash |-> dash]

DateTimeText(date, sep, h, mi, s, off) ==
    Text("datetime", date, sep, h, mi, s, off, sep = " ", TRUE)

OtherText(text, space, dash) == Text(text, Ymd(0, 0, 0), "", 0, 0, -1, "", space, dash)

DaysInMonth(y, m) ==
    IF m \in {4, 6, 9, 11} THEN 30
    ELSE IF m # 2 THEN 31
    ELSE IF y % 4 = 0 /\ (y % 100 # 0 \/ y % 400 = 0) THEN 29 ELSE 28

\* the fields of the string are those of a calendar date and a time of day
ValidDateTime(x) ==
    /\ x.kind = "datetime"
    /\ x.date.m \in 1..12
    /\ x.date.d \in 1..DaysInMonth(x.date.y, x.date.m)
    /\ x.h \in 0..23
    /\ x.mi \in 0..59
    /\ x.s \in -1..59

ValueError == [ok |-> FALSE]

\* the datetime a string parses to; aware iff the string carries an offset
ParsedDateTime(x) ==
    [ok |-> TRUE, date |-> x.date, h |-> x.h, mi |-> x.mi,
     s |-> IF x.s < 0 THEN 0 ELSE x.s, off |-> x.off]

\* datetime.strptime(x, fmt) for the two formats the adapters use
strptime(x, fmt) ==
    IF /\ ValidDateTime(x)
       /\ x.off = ""
       /\ \/ fmt = "%Y-%m-%d %H:%M" /\ x.sep = " " /\ x.s = -1
          \/ fmt = "%Y-%m-%dT%H:%M:%S" /\ x.sep = "T" /\ x.s >= 0
    THEN ParsedDateTime(x)
    ELSE ValueError

\* datetime.fromisoformat(x): any one-character separator, seconds optional,
\* offset +HH:MM or -HH:MM; a "Z" or a +HHMM offset only from Python 3.11 on
fromisoformat(x, py311) ==
    IF /\ ValidDateTime(x)
       /\ x.sep \in {" ", "T"}
       /\ \/ x.off \in {"", "+01:00", "-07:00", "+00:00"}
          \/ py311 /\ x.off \in {"Z", "+0000"}
    THEN ParsedDateTime(x)
    ELSE ValueError

\* dt.strftime('%I:%M %p')
Display12(h, mi) ==
    [t |-> "time12", h |-> IF h % 12 = 0 THEN 12 ELSE h % 12, mi |-> mi,
     p |-> IF h < 12 THEN "AM" ELSE "PM"]

OffsetSeconds(off) ==
    CASE off = "+01:00" -> 3600
      [] off = "-07:00" -> -25200
      [] OTHER -> 0

\* the instant of a parsed datetime in seconds since the year 2000; the day
\* count is exact between dates of one month
ToSeconds(dt) ==
    (((dt.date.y - 2000) * 372 + dt.date.m * 31 + dt.date.d) * 86400)
        + dt.h * 3600 + dt.mi * 60 + dt.s - OffsetSeconds(dt.off)

\* an f-string "{hours}h {minutes}m", or "{minutes}m" when with_h is false
DurationStr(hours, minutes, with_h) ==
    [t |-> "dur", h |-> hours, m |-> minutes, with_h |-> with_h]

-----------------------------------------------------------------------------
(* The flight record an adapter emits for one upstream result.  The result
   is held by its content, which each adapter reads under its own keys:
   segments (the number of segments of the itinerary), dep_time and arr_time
   (the local time strings), dep_utc and arr_utc (Kiwi's timestamps),
   total_duration, airline (a name), carrier (a code), flight_number, aircraft,
   price, fare_class, legroom, booking and seats.  A key the upstream left out
   holds None. *)

\* no record: the converter returned None or raised, and the caller went on
Dropped(why) == [t |-> "dropped", why |-> why]

\* a key the adapter's record does not have
NoKey == [t |-> "nokey"]

\* the departure_date the caller searched for, the anchor of the fallbacks
AnchorDate == Ymd(2026, 3, 14)

\* 'Frontier' in airline_name, on the names the upstream uses
ContainsFrontier(name) == name.v \in {"Frontier Airlines", "Frontier"}

\* flight_number.startswith('F9'), on the flight numbers the upstream uses
StartsWithF9(flight_number) == flight_number.v \in {"F9 777", "F9"}

\* s.lower(), on the class names the upstream uses
Lower(x) ==
    CASE x.v = "Economy" -> "economy"
      [] x.v = "Basic Economy" -> "basic economy"
      [] x.v = "Business" -> "business"
      [] OTHER -> x.v

\* the smaller of the two, where the code takes the larger
Max_Smaller(a, b) == IF a > b THEN b ELSE a

Max(a, b) == IF a > b THEN a ELSE b

-----------------------------------------------------------------------------
(* SerpApiFlightSearch, serpapi_flights.py *)

\* serpapi_flights.py:289-316; strptime of a value that is not a string raises
\* TypeError, which the except clause of line 306 does not catch
SerpApi_parse_datetime(datetime_str, fallback_date, py311) ==
    IF Falsy(datetime_str)
    THEN [raised |-> FALSE, date |-> fallback_date, time |-> Str("N/A")]
    ELSE IF datetime_str.t # "text"
    THEN [raised |-> TRUE, date |-> None, time |-> None]
    ELSE LET dt == strptime(datetime_str, "%Y-%m-%d %H:%M")
             iso == fromisoformat(datetime_str, py311)
         IN  IF dt.ok
             THEN [raised |-> FALSE, date |-> dt.date, time |-> Display12(dt.h, dt.mi)]
             ELSE IF ~datetime_str.space \/ ~datetime_str.dash
             THEN [raised |-> FALSE, date |-> fallback_date, time |-> datetime_str]
             ELSE IF iso.ok
             THEN [raised |-> FALSE, date |-> iso.date, time |-> Display12(iso.h, iso.mi)]
             ELSE [raised |-> FALSE, date |-> fallback_date, time |-> datetime_str]

\* serpapi_flights.py:318-341
SerpApi_is_gowild_eligible(is_frontier, price, gf_result) ==
    IF ~is_frontier THEN FALSE
    ELSE IF /\ gf_result.segments > 0
            /\ Lower(Get(gf_result, "fare_class", Str(""))) \in {"economy", "basic economy"}
    THEN TRUE
    ELSE ~Falsy(price) /\ price.v <= 99

\* serpapi_flights.py:171-287
SerpApi_convert_to_app_format(gf_result, departure_date_arg, py311) ==
    IF gf_result.segments = 0 THEN Dropped("None")
    ELSE
    LET dep == SerpApi_parse_datetime(gf_result.dep_time, departure_date_arg, py311)
        arr == SerpApi_parse_datetime(gf_result.arr_time, departure_date_arg, py311)
        total_minutes == Get(gf_result, "total_duration", Num(0)).v
        hours == total_minutes \div 60
        minutes == total_minutes % 60
        airline_name == Get(gf_result, "airline", Str("Unknown"))
        flight_number == Get(gf_result, "flight_number", Str("N/A"))
        airplane == Get(gf_result, "aircraft", Str("N/A"))
        price == Get(gf_result, "price", Num(0))
        is_frontier == ContainsFrontier(airline_name) \/ StartsWithF9(flight_number)
    IN  IF dep.raised \/ arr.raised THEN Dropped("TypeError")
        ELSE [t |-> "flight",
              departure_date |-> dep.date,
              departure_time |-> dep.time,
              arrival_date |-> arr.date,
              arrival_time |-> arr.time,
              duration |-> DurationStr(hours, minutes, hours # 0),
              stops |-> Num(Max(0, gf_result.segments - 1)),
              price |-> price,
              airline |-> airline_name,
              aircraft |-> IF Falsy(airplane) THEN Str("N/A") ELSE airplane,
              travel_class |-> Get(gf_result, "fare_class", Str("Economy")),
              legroom |-> Get(gf_result, "legroom", Str("")),
              seats_remaining |-> None,
              gowild_eligible |-> Bool(SerpApi_is_gowild_eligible(is_frontier, price, gf_result)),
              booking_token |-> Get(gf_result, "booking", Str(""))]

-----------------------------------------------------------------------------
(* KiwiFlightSearch, kiwi_api.py *)

\* datetime.utcfromtimestamp(ts), for the timestamps of January 1970
utcfromtimestamp(ts) ==
    [date |-> Ymd(1970, 1, 1 + (ts \div 86400)),
     h |-> (ts % 86400) \div 3600, mi |-> (ts % 3600) \div 60]

\* kiwi_api.py:36-44 and 252, AIRLINE_NAMES.get(airline_code, airline_code)
AirlineName(airline_code) ==
    CASE airline_code.v = "F9" -> Str("Frontier Airlines")
      [] airline_code.v = "UA" -> Str("United Airlines")
      [] OTHER -> airline_code

\* kiwi_api.py:223-273, on the outbound segments of a result
Kiwi_parse_segments(kiwi_flight) ==
    IF kiwi_flight.segments = 0
    THEN [departure_date |-> Str(""), departure_time |-> Str(""),
          arrival_date |-> Str(""), arrival_time |-> Str(""),
          duration |-> Str("N/A"), airline |-> Str("Unknown"),
          stops |-> 0, aircraft |-> Str("N/A")]
    ELSE
    LET dTimeUTC == Get(kiwi_flight, "dep_utc", Num(0)).v
        aTimeUTC == Get(kiwi_flight, "arr_utc", Num(0)).v
        dep_local == utcfromtimestamp(dTimeUTC)
        arr_local == utcfromtimestamp(aTimeUTC)
        total_seconds == aTimeUTC - dTimeUTC
        hours == total_seconds \div 3600
        minutes == (total_seconds % 3600) \div 60
        equipment == Get(kiwi_flight, "aircraft", Str("N/A"))
    IN  [departure_date |-> dep_local.date,
         departure_time |-> Display12(dep_local.h, dep_local.mi),
         arrival_date |-> arr_local.date,
         arrival_time |-> Display12(arr_local.h, arr_local.mi),
         duration |-> DurationStr(hours, minutes, hours # 0),
         airline |-> AirlineName(Get(kiwi_flight, "carrier", Str("F9"))),
         stops |-> Max(0, kiwi_flight.segments - 1),
         aircraft |-> IF Falsy(equipment) THEN Str("N/A") ELSE equipment]

\* kiwi_api.py:275-302
Kiwi_is_gowild_eligible(carrier_code, price, kiwi_flight) ==
    LET fare_category == Get(kiwi_flight, "fare_class", Str(""))
        seats == kiwi_flight.seats
    IN  IF carrier_code.v # "F9" THEN FALSE
        ELSE IF ~Falsy(fare_category)
                /\ Lower(fare_category) \in {"economy", "basic", "economy_basic"}
        THEN TRUE
        ELSE IF price.v <= 99 THEN TRUE
        ELSE seats # None /\ seats.v <= 5

\* kiwi_api.py:167-221; a timestamp that is not a number makes
\* utcfromtimestamp raise TypeError
Kiwi_convert_to_app_format(kiwi_flight) ==
    IF /\ kiwi_flight.segments > 0
       /\ \/ Get(kiwi_flight, "dep_utc", Num(0)).t # "num"
          \/ Get(kiwi_flight, "arr_utc", Num(0)).t # "num"
    THEN Dropped("TypeError")
    ELSE
    LET outbound == Kiwi_parse_segments(kiwi_flight)
        price == Get(kiwi_flight, "price", Num(0))
        first_carrier == IF kiwi_flight.segments > 0
                         THEN Get(kiwi_flight, "carrier", Str("")) ELSE Str("")
    IN  [t |-> "flight",
         departure_date |-> outbound.departure_date,
         departure_time |-> outbound.departure_time,
         arrival_date |-> outbound.arrival_date,
         arrival_time |-> outbound.arrival_time,
         duration |-> outbound.duration,
         stops |-> Num(outbound.stops),
         price |-> price,
         airline |-> outbound.airline,
         aircraft |-> outbound.aircraft,
         travel_class |-> NoKey,
         legroom |-> NoKey,
         seats_remaining |-> kiwi_flight.seats,
         gowild_eligible |-> Bool(Kiwi_is_gowild_eligible(first_carrier, price, kiwi_flight)),
         booking_token |-> kiwi_flight.booking]

-----------------------------------------------------------------------------
(* AviationStackAPI, flight_api_fallback.py *)

\* flight_api_fallback.py:95-104: fromisoformat of the string with its 'Z'
\* replaced, else strptime of its first 19 characters; a failure of the second
\* parse is not caught here
AviationStack_parse_scheduled(time_str, py311) ==
    IF Falsy(time_str) THEN [raised |-> FALSE, dt |-> None]
    ELSE IF time_str.t # "text" THEN [raised |-> TRUE, dt |-> None]
    ELSE LET replaced == [time_str EXCEPT !.off = IF @ = "Z" THEN "+00:00" ELSE @]
             first19 == [time_str EXCEPT !.off = IF time_str.s >= 0 THEN "" ELSE @]
             iso == fromisoformat(replaced, py311)
             dt == strptime(first19, "%Y-%m-%dT%H:%M:%S")
         IN  IF iso.ok THEN [raised |-> FALSE, dt |-> iso]
             ELSE IF dt.ok THEN [raised |-> FALSE, dt |-> dt]
             ELSE [raised |-> TRUE, dt |-> None]

\* flight_api_fallback.py:82-144, one element of flights_data; subtracting an
\* aware datetime and a naive one raises TypeError
AviationStack_convert_to_app_format(item, py311) ==
    LET dep == AviationStack_parse_scheduled(item.dep_time, py311)
        arr == AviationStack_parse_scheduled(item.arr_time, py311)
        both == dep.dt # None /\ arr.dt # None
        total_seconds == ToSeconds(arr.dt) - ToSeconds(dep.dt)
        hours == total_seconds \div 3600
        minutes == (total_seconds % 3600) \div 60
    IN  IF dep.raised \/ arr.raised THEN Dropped("ValueError")
        ELSE IF both /\ (dep.dt.off = "") # (arr.dt.off = "") THEN Dropped("TypeError")
        ELSE [t |-> "flight",
              departure_date |-> IF dep.dt # None THEN dep.dt.date ELSE None,
              departure_time |-> IF dep.dt # None THEN Display12(dep.dt.h, dep.dt.mi)
                                 ELSE Str("N/A"),
              arrival_date |-> IF arr.dt # None THEN arr.dt.date ELSE None,
              arrival_time |-> IF arr.dt # None THEN Display12(arr.dt.h, arr.dt.mi)
                               ELSE Str("N/A"),
              duration |-> IF both THEN DurationStr(hours, minutes, TRUE) ELSE Str(""),
              stops |-> Num(0),
              price |-> None,
              airline |-> Get(item, "airline", Str("Frontier Airlines")),
              aircraft |-> Get(item, "aircraft", Str("N/A")),
              travel_class |-> Str("Economy"),
              legroom |-> NoKey,
              seats_remaining |-> NoKey,
              gowild_eligible |-> Bool(TRUE),
              booking_token |-> NoKey]

-----------------------------------------------------------------------------
(* RealTimeFlightService, aerodatabox_api.py *)

\* aerodatabox_api.py:602-625; time_str.replace of a value that is not a string
\* raises AttributeError, which the except clause of line 624 does not catch
AeroDataBox_parse_time(time_str, py311) ==
    IF Falsy(time_str) THEN [raised |-> FALSE, time |-> None, date |-> None]
    ELSE IF time_str.t # "text" THEN [raised |-> TRUE, time |-> None, date |-> None]
    ELSE LET clean == [time_str EXCEPT !.sep = IF @ = " " THEN "T" ELSE @, !.space = FALSE]
             dt_part == IF clean.off \in {"+01:00", "+00:00", "+0000"} /\ clean.sep = "T"
                        THEN [clean EXCEPT !.off = ""]
                        ELSE IF clean.off = "Z" THEN [clean EXCEPT !.off = ""]
                        ELSE clean
             dt == fromisoformat(dt_part, py311)
         IN  IF dt.ok
             THEN [raised |-> FALSE, time |-> Display12(dt.h, dt.mi), date |-> dt.date]
             ELSE [raised |-> FALSE, time |-> time_str, date |-> None]

\* aerodatabox_api.py:485-487 and 510-522, the scheduled times of the record
AeroDataBox_format_flight(flight_data, py311) ==
    LET dep_scheduled == AeroDataBox_parse_time(flight_data.dep_time, py311)
        arr_scheduled == AeroDataBox_parse_time(flight_data.arr_time, py311)
    IN  IF dep_scheduled.raised \/ arr_scheduled.raised THEN Dropped("AttributeError")
        ELSE [t |-> "flight",
              departure_date |-> dep_scheduled.date,
              departure_time |-> dep_scheduled.time,
              arrival_date |-> arr_scheduled.date,
              arrival_time |-> arr_scheduled.time,
              duration |-> NoKey,
              stops |-> NoKey,
              price |-> NoKey,
              airline |-> Get(flight_data, "airline", Str("Frontier Airlines")),
              aircraft |-> NoKey,
              travel_class |-> NoKey,
              legroom |-> NoKey,
              seats_remaining |-> NoKey,
              gowild_eligible |-> NoKey,
              booking_token |-> NoKey]

-----------------------------------------------------------------------------
(* One upstream result converted by one adapter *)

Adapters == {"serpapi", "kiwi", "aviationstack", "aerodatabox"}

\* time values an upstream may send: the accepted shapes, strings that do not
\* parse, the empty string, a missing key and a value that is not a string
TimeSamples ==
    { DateTimeText(Ymd(2026, 3, 15), " ", 6, 30, -1, ""),
      DateTimeText(Ymd(2026, 3, 15), "T", 6, 30, -1, ""),
      DateTimeText(Ymd(2026, 3, 15), "T", 18, 45, 0, ""),
      DateTimeText(Ymd(2026, 3, 15), "T", 0, 5, 0, "+01:00"),
      DateTimeText(Ymd(2026, 3, 15), "T", 12, 0, -1, "-07:00"),
      DateTimeText(Ymd(2026, 3, 15), " ", 14, 30, -1, "+01:00"),
      DateTimeText(Ymd(2026, 3, 15), "T", 6, 30, 0, "Z"),
      DateTimeText(Ymd(2026, 3, 15), "T", 6, 30, 0, "+0000"),
      DateTimeText(Ymd(2026, 3, 15), " ", 23, 59, 30, ""),
      DateTimeText(Ymd(2026, 13, 45), " ", 6, 30, -1, ""),
      DateTimeText(Ymd(2026, 2, 30), "T", 6, 30, 0, ""),
      OtherText("6:30 AM", TRUE, FALSE),
      OtherText("TBD", FALSE, FALSE),
      OtherText("late - see gate", TRUE, TRUE),
      OtherText("", FALSE, FALSE),
      None,
      Num(5) }

\* a complete result of a Frontier flight
BaseResult ==
    [segments |-> 1,
     dep_time |-> DateTimeText(Ymd(2026, 3, 15), " ", 6, 30, -1, ""),
     arr_time |-> DateTimeText(Ymd(2026, 3, 15), " ", 9, 35, -1, ""),
     dep_utc |-> Num(23400), arr_utc |-> Num(34500),
     total_duration |-> Num(185),
     airline |-> Str("Frontier Airlines"), carrier |-> Str("F9"),
     flight_number |-> Str("F9 777"),
     aircraft |-> Str("Airbus A320"), price |-> Num(50), fare_class |-> Str("Economy"),
     legroom |-> Str("28 in"), booking |-> Str("token"), seats |-> Num(6)]

RawPayloads ==
    \* the time fields
    { [BaseResult EXCEPT !.dep_time = d, !.arr_time = a] :
        d \in TimeSamples,
        a \in { None, OtherText("TBD", FALSE, FALSE),
                DateTimeText(Ymd(2026, 3, 15), "T", 20, 0, 0, ""),
                DateTimeText(Ymd(2026, 3, 15), "T", 9, 15, 0, "Z") } }
    \cup
    \* the carrier and the three eligibility criteria
    { [BaseResult EXCEPT !.airline = c[1], !.carrier = c[2], !.flight_number = c[3],
                         !.fare_class = f, !.price = p, !.seats = n] :
        c \in { <<Str("Frontier Airlines"), Str("F9"), Str("F9 777")>>,
                <<Str("United Airlines"), Str("UA"), Str("UA 1203")>>,
                <<None, None, None>> },
        f \in {None, Str("Economy"), Str("Basic Economy"), Str("basic"), Str("Business")},
        p \in {None, Num(50), Num(99), Num(100), Num(250)},
        n \in {None, Num(5), Num(6)} }
    \cup
    \* the duration and what it can be derived from
    { [BaseResult EXCEPT !.segments = k, !.total_duration = t,
                         !.dep_time = x[1], !.arr_time = x[2],
                         !.dep_utc = u, !.arr_utc = v] :
        k \in {0, 1, 2},
        t \in {None, Num(45), Num(185)},
        x \in { <<None, None>>,
                <<DateTimeText(Ymd(2026, 3, 15), "T", 18, 45, 0, ""),
                  DateTimeText(Ymd(2026, 3, 15), "T", 20, 0, 0, "")>> },
        u \in {None, Num(23400), Str("soon")},
        v \in {None, Num(34500)} }
    \cup
    \* the optional fields
    { [BaseResult EXCEPT !.aircraft = a, !.price = p, !.fare_class = f,
                         !.legroom = l, !.booking = b, !.seats = n] :
        a \in {None, Str("Airbus A320")}, p \in {None, Num(250)},
        f \in {None, Str("Business")}, l \in {None, Str("28 in")},
        b \in {None, Str("token")}, n \in {None, Num(6)} }

NormalizeInit ==
    /\ PlannerIdle
    /\ ServiceIdle
    /\ adapter \in Adapters
    /\ raw \in RawPayloads
    /\ flight = None
    /\ route_i = 0
    /\ adapter_all_flights = <<>>
    /\ route_log = <<>>
    /\ blackout_log = <<>>

\* serpapi_flights.py:158-167, one result of _search_route
SerpApiConvert ==
    /\ adapter = "serpapi"
    /\ flight = None
    /\ \E py311 \in BOOLEAN :
          flight' = SerpApi_convert_to_app_format(raw, AnchorDate, py311)
    /\ UNCHANGED planner_vars
    /\ UNCHANGED service_vars
    /\ UNCHANGED <<adapter, raw, route_i, adapter_all_flights, route_log, blackout_log>>

\* kiwi_api.py:165, one result of _search_route
KiwiConvert ==
    /\ adapter = "kiwi"
    /\ flight = None
    /\ flight' = Kiwi_convert_to_app_format(raw)
    /\ UNCHANGED planner_vars
    /\ UNCHANGED service_vars
    /\ UNCHANGED <<adapter, raw, route_i, adapter_all_flights, route_log, blackout_log>>

\* flight_api_fallback.py:82-144, one element of flights_data
AviationStackConvert ==
    /\ adapter = "aviationstack"
    /\ flight = None
    /\ \E py311 \in BOOLEAN :
          flight' = AviationStack_convert_to_app_format(raw, py311)
    /\ UNCHANGED planner_vars
    /\ UNCHANGED service_vars
    /\ UNCHANGED <<adapter, raw, route_i, adapter_all_flights, route_log, blackout_log>>

\* aerodatabox_api.py:459-530, one flight of the status service
AeroDataBoxFormat ==
    /\ adapter = "aerodatabox"
    /\ flight = None
    /\ \E py311 \in BOOLEAN :
          flight' = AeroDataBox_format_flight(raw, py311)
    /\ UNCHANGED planner_vars
    /\ UNCHANGED service_vars
    /\ UNCHANGED <<adapter, raw, route_i, adapter_all_flights, route_log, blackout_log>>

NormalizeNext ==
    \/ SerpApiConvert
    \/ KiwiConvert
    \/ AviationStackConvert
    \/ AeroDataBoxFormat

NormalizeSpec == NormalizeInit /\ [][NormalizeNext]_vars

-----------------------------------------------------------------------------
(* Properties of the search window loop *)

Answered == pc = "done" /\ response.status = 200
IsPrefix(s, t) == Len(s) <= Len(t) /\ SubSeq(t, 1, Len(s)) = s

\* C1. Once an invocation of the engine has returned at least one candidate
\* the search stops: the offset, the pool and the result are frozen, no further
\* fetch and no further engine invocation happens, and the candidates answered
\* are those of that invocation, which is the one of the current offset.
C1_StopsOnFirstResult ==
    /\ [][optimal_trips # <<>> =>
            UNCHANGED <<days_searched, all_flights, batch_flights, optimal_trips,
                        fetch_count, engine_calls, engine_log>>]_vars
    /\ [](optimal_trips # <<>> =>
            /\ optimal_trips = engine_log.result
            /\ engine_calls = days_searched + 1
            /\ pc \in {"return", "done"})
    /\ [](Answered /\ engine_log.result # <<>> =>
            /\ response.total_options = Len(engine_log.result)
            /\ IsPrefix(response.flights, engine_log.result))

\* a search that found its first candidates at a later offset, with a flight client
C1_Witness ==
    /\ Answered
    /\ response.total_options > 0
    /\ days_searched >= 2
    /\ fetch_count = 5 * (days_searched + 1)
    /\ engine_calls = days_searched + 1

Exhausted == Answered /\ engine_calls = max_days_to_search /\ engine_log.result = <<>>

\* C2. When every engine invocation of the 30 offsets returned nothing, the
\* answer is a success with an empty result list and days_searched = 30.
C2_ExhaustedReportsBound ==
    Exhausted => /\ response.flights = <<>>
                 /\ response.total_options = 0
                 /\ response.days_searched = max_days_to_search

\* C3. days_searched is one function of the number n of loop iterations executed
\* in every outcome: n - 1 (the 0-indexed offset of the last iteration) or n (the
\* 1-indexed one).  A state where the reported value is neither refutes both
\* conventions at once.
C3_DaysSearchedOneConvention ==
    Answered => \E c \in {0, 1} : response.days_searched = (engine_calls - 1) + c

\* C4. The accumulated pool never shrinks: every step leaves the old pool as a
\* prefix of the new one, and the pool an engine invocation receives is every leg
\* fetched since the search began, in fetch order.
C4_PoolNeverShrinks ==
    /\ [][IsPrefix(all_flights, all_flights')]_vars
    /\ [][engine_calls' # engine_calls =>
            /\ engine_log'.pool = fetched
            /\ all_flights' = fetched]_vars

\* an engine invocation at a later offset whose pool holds legs of an earlier
\* offset and legs of the current one
C4_Witness ==
    /\ engine_calls >= 2
    /\ pc \in {"while", "return"}
    /\ batch_flights # <<>>
    /\ Len(engine_log.pool) > Len(batch_flights)

\* the for loop of the current offset has gone through all its return dates
OffsetExamined == pc = "for" /\ ri > Len(return_dates)

\* the target of the request in hours, and the day its end falls on for offset d
RequestedHours ==
    data.tripLength.v * (IF data.tripLengthUnit \in {None, Str("days")} THEN 24 ELSE 1)
TargetDay(d) == (((data.departureDate.day + d) * 24) + RequestedHours) \div 24

ExpectedFetches(d) ==
    [k \in 1..5 |-> [departure_date |-> DateStr(data.departureDate.day + d),
                     return_date    |-> DateStr(TargetDay(d) + (k - 3))]]

RequiredFields == {"origins", "destinations", "departureDate", "tripLength"}
AbsentOrEmpty(x) == x \in {None, List(<<>>), Str("")}

Min(a, b) == IF a < b THEN a ELSE b

\* C7. The answer holds the first min(20, n) candidates of the engine's ordered
\* output of length n, in the same order, and total_options = n.
C7_TopTwentyAndTotal ==
    Answered =>
        LET n == Len(engine_log.result)
        IN  /\ Len(response.flights) = Min(20, n)
            /\ \A i \in 1..Len(response.flights) : response.flights[i] = engine_log.result[i]
            /\ response.total_options = n

\* an answer cut to 20 out of more candidates
C7_Witness ==
    /\ Answered
    /\ Len(engine_log.result) > 20
    /\ Len(response.flights) = 20
    /\ response.total_options = Len(engine_log.result)

\* C8. The loop terminates: offsets are examined in increasing order starting at
\* 0, at most 30 of them, with at most 5 fetches each, and a response is produced
\* after the first non-empty engine result or after the 30th offset.
C8_LoopTerminates ==
    /\ <>(pc = "done")
    /\ [](/\ days_searched <= 30
          /\ engine_calls <= 30
          /\ Len(fetch_log) <= 5
          /\ fetch_count <= 5 * engine_calls + Len(fetch_log))
    /\ [][engine_calls' # engine_calls =>
            engine_calls = days_searched /\ engine_calls' = engine_calls + 1]_vars
    /\ [][days_searched' # days_searched => days_searched' = days_searched + 1]_vars
    /\ [](Answered => engine_log.result # <<>> \/ engine_calls = 30)

\* a search that went through the whole window, 5 fetches at each of 30 offsets
C8_Witness ==
    /\ Exhausted
    /\ fetch_count = 150
    /\ days_searched = 30

-----------------------------------------------------------------------------
(* Properties of the combination engine, read off the last call recorded in
   engine_log and the constraints of the request *)

DaysOrHours(unit) == IF unit \in {None, Str("days")} THEN 1440 ELSE 60
RequestedTarget == data.tripLength.v * DaysOrHours(data.tripLengthUnit)
RequestedMax == data.maxTripDuration.v * DaysOrHours(data.maxTripDurationUnit)
PreferNonstop == data.nonstopPreferred = Bool(TRUE)

OutIdx(pool) == {i \in 1..Len(pool) : pool[i].role = "out"}
RetIdx(pool) == {j \in 1..Len(pool) : pool[j].role = "ret"}

\* the (outbound, return) index pairs of a pool, 0 standing for no return leg
PairsOf(pool) ==
    IF RetIdx(pool) = {} THEN OutIdx(pool) \X {0} ELSE OutIdx(pool) \X RetIdx(pool)

PairDuration(pool, ij) ==
    IF ij[2] = 0 THEN pool[ij[1]].arr - pool[ij[1]].dep
    ELSE pool[ij[2]].arr - pool[ij[1]].dep

\* candidate c is the pair ij of the pool
IsPair(c, pool, ij) ==
    /\ c.outbound = pool[ij[1]]
    /\ c.return = (IF ij[2] = 0 THEN NoLeg ELSE pool[ij[2]])

\* the duration of a candidate, from its legs
LegsDuration(c) ==
    IF c.return = NoLeg THEN c.outbound.arr - c.outbound.dep
    ELSE c.return.arr - c.outbound.dep

\* C9. With a maximum duration supplied, no returned candidate lasts longer than
\* the maximum, and every candidate of the pool that does not exceed it is
\* returned (once per pair of pool entries).
C9_MaxDurationFilter ==
    engine_calls > 0 /\ data.maxTripDuration # None =>
        LET pool == engine_log.pool
            result == engine_log.result
            within == {ij \in PairsOf(pool) : PairDuration(pool, ij) <= RequestedMax}
        IN  /\ \A k \in 1..Len(result) :
                  /\ LegsDuration(result[k]) <= RequestedMax
                  /\ result[k].duration = LegsDuration(result[k])
            /\ Len(result) = Cardinality(within)
            /\ \A ij \in within : \E k \in 1..Len(result) : IsPair(result[k], pool, ij)

\* a call on round trips where the maximum rejects one candidate of the pool
\* and keeps another
C9_Witness ==
    /\ engine_calls > 0
    /\ data.maxTripDuration # None
    /\ Len(engine_log.result) >= 1
    /\ Cardinality(PairsOf(engine_log.pool)) > Len(engine_log.result)
    /\ RetIdx(engine_log.pool) # {}

AbsValue(x) == IF x < 0 THEN -x ELSE x
Delta(c) == AbsValue(LegsDuration(c) - RequestedTarget)
IsNonstop(c) == c.outbound.stops = 0 /\ (c.return = NoLeg \/ c.return.stops = 0)
Violation(c) == IF PreferNonstop /\ ~IsNonstop(c) THEN 1 ELSE 0

\* C10. The returned list is ascending in (duration delta, nonstop-preference
\* violation, combined price): delta never decreases along the list; between
\* adjacent candidates of equal delta, with the preference set, a nonstop one
\* never follows one that is not nonstop; and between adjacent candidates equal
\* on both, the price never decreases.
C10_SortedByDeltaNonstopPrice ==
    engine_calls > 0 =>
        LET result == engine_log.result
        IN  \A k \in 1..(Len(result) - 1) :
                LET a == result[k]
                    b == result[k + 1]
                IN  /\ Delta(a) <= Delta(b)
                    /\ Delta(a) = Delta(b) /\ PreferNonstop =>
                            ~(~IsNonstop(a) /\ IsNonstop(b))
                    /\ Delta(a) = Delta(b) /\ Violation(a) = Violation(b) =>
                            a.price <= b.price

\* a list of three candidates of equal delta where the price decides the first
\* two and the nonstop preference puts the cheapest candidate last
C10_Witness ==
    /\ engine_calls > 0
    /\ PreferNonstop
    /\ engine_log.pool = <<OutC, OutD, OutE>>
    /\ Len(engine_log.result) = 3
    /\ Delta(engine_log.result[1]) = Delta(engine_log.result[3])
    /\ engine_log.result[1].outbound = OutE
    /\ engine_log.result[2].outbound = OutD
    /\ engine_log.result[3].outbound = OutC

\* the pool entries that are outbound legs within the maximum duration, if any
PassingOutbound(pool) ==
    {i \in OutIdx(pool) :
        data.maxTripDuration = None \/ pool[i].arr - pool[i].dep <= RequestedMax}

\* C11. One-way mode: when the pool holds no return leg the engine returns
\* exactly one candidate per outbound leg within the maximum duration, each
\* without a return leg and lasting as long as its outbound leg; and with two
\* outbound legs of 120 and 300 minutes and a target of 5 hours the 300-minute
\* leg comes first and the 120-minute leg second.
C11_OneWayMode ==
    engine_calls > 0 /\ RetIdx(engine_log.pool) = {} =>
        LET pool == engine_log.pool
            result == engine_log.result
            passing == PassingOutbound(pool)
        IN  /\ Len(result) = Cardinality(passing)
            /\ \A k \in 1..Len(result) :
                  /\ result[k].return = NoLeg
                  /\ result[k].duration = result[k].outbound.arr - result[k].outbound.dep
            /\ \A i \in passing :
                  Cardinality({k \in 1..Len(result) : result[k].outbound = pool[i]})
                     = Cardinality({j \in passing : pool[j] = pool[i]})
            /\ ( /\ Len(pool) = 2
                 /\ {pool[i].arr - pool[i].dep : i \in 1..2} = {120, 300}
                 /\ passing = {1, 2}
                 /\ RequestedTarget = 300 )
               => /\ result[1].duration = 300
                  /\ result[2].duration = 120

\* the scenario: the 120-minute leg is first in the pool and second in the answer
C11_Witness ==
    /\ engine_calls > 0
    /\ engine_log.pool = <<OutC, OutA>>
    /\ RequestedTarget = 300
    /\ Len(engine_log.result) = 2
    /\ engine_log.result[1].outbound = OutA
    /\ engine_log.result[1].return = NoLeg
    /\ engine_log.result[1].duration = 300
    /\ engine_log.result[2].outbound = OutC
    /\ engine_log.result[2].duration = 120

\* C12. The engine applied to an empty pool returns the empty list, whatever the
\* target length, its unit, the nonstop preference and the maximum duration.
C12_EmptyPoolEmptyResult ==
    engine_calls > 0 /\ engine_log.pool = <<>> => engine_log.result = <<>>

\* a call on the empty pool with a target of zero, the nonstop preference and a
\* maximum duration in hours
C12_Witness ==
    /\ engine_calls > 0
    /\ engine_log.pool = <<>>
    /\ engine_log.result = <<>>
    /\ data.tripLength = Num(0)
    /\ PreferNonstop
    /\ data.maxTripDuration = Num(2)
    /\ data.maxTripDurationUnit = Str("hours")

-----------------------------------------------------------------------------
(* Properties of the blackout policy *)

\* some period of the table holds the date
InSomePeriod(d) ==
    \E y \in DOMAIN BlackoutTable : \E k \in 1..Len(BlackoutTable[y]) :
        LET p == BlackoutTable[y][k]
        IN  DateLE(p.start, d) /\ DateLE(d, p.end)

\* C13. Blackout evaluation is order-independent and idempotent: evaluate(d1, d2)
\* and evaluate(d2, d1) report the same affected flag, the flag is true exactly
\* when d1 or d2 lies in the inclusive range of some period of the table, and two
\* calls on the same dates give the same result.
C13_BlackoutOrderIndependent ==
    \A i, j \in 1..Len(blackout_log) :
        LET a == blackout_log[i]
            b == blackout_log[j]
        IN  /\ a.return_date # None =>
                  (a.result.affected <=>
                      InSomePeriod(a.departure_date) \/ InSomePeriod(a.return_date))
            /\ a.departure_date = b.return_date /\ a.return_date = b.departure_date =>
                  a.result.affected = b.result.affected
            /\ a.departure_date = b.departure_date /\ a.return_date = b.return_date =>
                  a.result = b.result

\* a date pair evaluated in both orders, only one of its dates in a period
C13_Witness ==
    /\ Len(blackout_log) = 2
    /\ blackout_log[1].departure_date = Ymd(2026, 3, 12)
    /\ blackout_log[1].return_date = Ymd(2027, 1, 2)
    /\ blackout_log[2].departure_date = Ymd(2027, 1, 2)
    /\ blackout_log[2].return_date = Ymd(2026, 3, 12)
    /\ blackout_log[1].result.affected
    /\ blackout_log[2].result.affected
    /\ blackout_log[1].result.periods = <<Period(Ymd(2026, 12, 19), Ymd(2027, 1, 3), "Winter Holidays")>>

-----------------------------------------------------------------------------
(* search_flights of the SerpApi and Kiwi adapters: one upstream call per
   origin-destination route *)

SearchOrigins == <<"DEN", "LAS">>
SearchDestinations == <<"LAS", "MCO">>

\* the (origin, destination) pairs in the order the two for loops visit them
RoutePairs ==
    [i \in 1..(Len(SearchOrigins) * Len(SearchDestinations)) |->
        <<SearchOrigins[((i - 1) \div Len(SearchDestinations)) + 1],
          SearchDestinations[((i - 1) % Len(SearchDestinations)) + 1]>>]

\* a result whose conversion raises in both adapters: a time that is not a
\* string, a timestamp that is not a number
BadResult == [BaseResult EXCEPT !.dep_time = Num(5), !.dep_utc = Str("soon")]

\* what requests.get can do for one route: raise, or answer with a status
\* code and a body that may hold an 'error' key and results
UpstreamAnswers ==
    { [raises |-> TRUE, status |-> 0, error |-> FALSE, results |-> <<>>] }
    \cup
    { [raises |-> FALSE, status |-> st, error |-> e, results |-> rs] :
        st \in {200, 500}, e \in BOOLEAN,
        rs \in { <<>>, <<BaseResult>>, <<BadResult, BaseResult>> } }

\* the per-result loop of _search_route with the status check left out
SerpApi_search_route_NoStatusCheck(answer, dep_date, py311) ==
    IF answer.raises THEN [raised |-> TRUE, flights |-> <<>>]
    ELSE IF answer.error THEN [raised |-> FALSE, flights |-> <<>>]
    ELSE LET converted == [i \in 1..Len(answer.results) |->
                             SerpApi_convert_to_app_format(answer.results[i], dep_date, py311)]
         IN  [raised |-> FALSE,
              flights |-> SelectSeq(converted, LAMBDA c : c.t = "flight")]

\* serpapi_flights.py:106-169: the return value of _search_route, or raised
SerpApi_search_route(answer, dep_date, py311) ==
    IF answer.raises THEN [raised |-> TRUE, flights |-> <<>>]
    ELSE IF answer.status # 200 THEN [raised |-> FALSE, flights |-> <<>>]
    ELSE IF answer.error THEN [raised |-> FALSE, flights |-> <<>>]
    ELSE LET converted == [i \in 1..Len(answer.results) |->
                             SerpApi_convert_to_app_format(answer.results[i], dep_date, py311)]
         IN  [raised |-> FALSE,
              flights |-> SelectSeq(converted, LAMBDA c : c.t = "flight")]

\* kiwi_api.py:110-165: the list comprehension of line 165 has no try of its
\* own, so one result that raises loses the route
Kiwi_search_route(answer) ==
    IF answer.raises THEN [raised |-> TRUE, flights |-> <<>>]
    ELSE IF answer.status # 200 THEN [raised |-> FALSE, flights |-> <<>>]
    ELSE LET converted == [i \in 1..Len(answer.results) |->
                             Kiwi_convert_to_app_format(answer.results[i])]
         IN  IF \E i \in 1..Len(converted) : converted[i].t = "dropped"
             THEN [raised |-> TRUE, flights |-> <<>>]
             ELSE [raised |-> FALSE, flights |-> converted]

SearchInit ==
    /\ PlannerIdle
    /\ ServiceIdle
    /\ adapter \in {"serpapi", "kiwi"}
    /\ raw = None
    /\ flight = None
    /\ route_i = 0
    /\ adapter_all_flights = <<>>
    /\ route_log = <<>>
    /\ blackout_log = <<>>

\* serpapi_flights.py:86-87, kiwi_api.py:90-91: if origin == destination: continue
SkipSameAirport ==
    /\ route_i < Len(RoutePairs)
    /\ RoutePairs[route_i + 1][1] = RoutePairs[route_i + 1][2]
    /\ route_i' = route_i + 1
    /\ UNCHANGED planner_vars
    /\ UNCHANGED service_vars
    /\ UNCHANGED <<adapter, raw, flight, adapter_all_flights, route_log, blackout_log>>

\* serpapi_flights.py:89-102: one pass of the loop body
SerpApiSearchRoute ==
    /\ adapter = "serpapi"
    /\ route_i < Len(RoutePairs)
    /\ RoutePairs[route_i + 1][1] # RoutePairs[route_i + 1][2]
    /\ \E answer \in UpstreamAnswers, py311 \in BOOLEAN :
          LET flights == SerpApi_search_route(answer, AnchorDate, py311)
          IN  /\ adapter_all_flights' = IF flights.raised THEN adapter_all_flights
                                        ELSE adapter_all_flights \o flights.flights
              /\ route_log' = Append(route_log,
                     [idx |-> route_i + 1, answer |-> answer, flights |-> flights.flights])
    /\ route_i' = route_i + 1
    /\ UNCHANGED planner_vars
    /\ UNCHANGED service_vars
    /\ UNCHANGED <<adapter, raw, flight, blackout_log>>

\* kiwi_api.py:93-106: one pass of the loop body
KiwiSearchRoute ==
    /\ adapter = "kiwi"
    /\ route_i < Len(RoutePairs)
    /\ RoutePairs[route_i + 1][1] # RoutePairs[route_i + 1][2]
    /\ \E answer \in UpstreamAnswers :
          LET flights == Kiwi_search_route(answer)
          IN  /\ adapter_all_flights' = IF flights.raised THEN adapter_all_flights
                                        ELSE adapter_all_flights \o flights.flights
              /\ route_log' = Append(route_log,
                     [idx |-> route_i + 1, answer |-> answer, flights |-> flights.flights])
    /\ route_i' = route_i + 1
    /\ UNCHANGED planner_vars
    /\ UNCHANGED service_vars
    /\ UNCHANGED <<adapter, raw, flight, blackout_log>>

SearchNext ==
    \/ SkipSameAirport
    \/ SerpApiSearchRoute
    \/ KiwiSearchRoute

SearchSpec == SearchInit /\ [][SearchNext]_vars

-----------------------------------------------------------------------------
(* Airline-code normalization of a flight number, aerodatabox_api.py.  A
   string is the sequence of its characters. *)

MaxFlightNumLen == 5

\* aerodatabox_api.py:161-168, the entries over the letters the model sends
ICAO_TO_IATA ==
    (<<"A", "A", "L">> :> <<"A", "A">>) @@ (<<"D", "A", "L">> :> <<"D", "L">>)
        @@ (<<"F", "F", "T">> :> <<"F", "9">>)

\* aerodatabox_api.py:171-180; re.match(r'^([A-Z]{3})(\d+)$', flight_num): the
\* '$' also matches before a newline that ends the string, and the newline is
\* in neither group
icao_to_iata(x) ==
    LET end == IF Len(x) > 0 /\ x[Len(x)] = "\n" THEN Len(x) - 1 ELSE Len(x)
        match == /\ end >= 4
                 /\ \A i \in 1..3 : x[i] \in {"A", "D", "F", "L", "T"}
                 /\ \A i \in 4..end : x[i] \in {"3", "9"}
        icao_code == SubSeq(x, 1, 3)
        number == SubSeq(x, 4, end)
    IN  IF match /\ icao_code \in DOMAIN ICAO_TO_IATA
        THEN ICAO_TO_IATA[icao_code] \o number
        ELSE x

\* the flight numbers a caller may pass
FlightNumbers == SeqsUpTo({"A", "L", "9", "a", "-", "\n"}, MaxFlightNumLen)

IcaoInit ==
    /\ PlannerIdle
    /\ AdapterIdle
    /\ flight_num \in FlightNumbers
    /\ icao_log = <<>>
    /\ _startup_done = FALSE
    /\ _startup_lock = 0
    /\ init_pc = <<>>
    /\ update_threads = 0
    /\ flask_cache = <<>>
    /\ search_log = <<>>
    /\ events = <<>>

\* aerodatabox_api.py:171-182, a call of _icao_to_iata on the current value
IcaoToIata ==
    /\ Len(icao_log) < 2
    /\ flight_num' = icao_to_iata(flight_num)
    /\ icao_log' = Append(icao_log, [arg |-> flight_num,
                                     result |-> icao_to_iata(flight_num)])
    /\ UNCHANGED <<planner_vars, adapter_vars>>
    /\ UNCHANGED <<_startup_done, _startup_lock, init_pc, update_threads, flask_cache,
                   search_log, events>>

\* aerodatabox_api.py:226-229, get_flight_status up to the normalization:
\* flight_number.replace('-', '').replace(' ', '').upper(), then _icao_to_iata
GetFlightStatus ==
    /\ icao_log = <<>>
    /\ LET kept == SelectSeq(flight_num, LAMBDA c : c \notin {"-", " "})
           upper == [i \in 1..Len(kept) |-> IF kept[i] = "a" THEN "A" ELSE kept[i]]
       IN  /\ flight_num' = icao_to_iata(upper)
           /\ icao_log' = Append(icao_log, [arg |-> upper, result |-> icao_to_iata(upper)])
    /\ UNCHANGED <<planner_vars, adapter_vars>>
    /\ UNCHANGED <<_startup_done, _startup_lock, init_pc, update_threads, flask_cache,
                   search_log, events>>

IcaoSpec == IcaoInit /\ [][IcaoToIata \/ GetFlightStatus]_vars

-----------------------------------------------------------------------------
(* _lazy_init, app.py:76-86, run by the before_request hook of concurrent
   requests.  A step is what one request does between two points where the
   interpreter may switch threads. *)

MaxRequests == 4

LazyInit ==
    /\ PlannerIdle
    /\ AdapterIdle
    /\ flight_num = None
    /\ icao_log = <<>>
    /\ _startup_done = FALSE
    /\ _startup_lock = 0
    /\ init_pc = [r \in 1..MaxRequests |-> "check"]
    /\ update_threads = 0
    /\ flask_cache = <<>>
    /\ search_log = <<>>
    /\ events = <<>>

\* app.py:79-80, if _startup_done: return
FastCheck ==
    /\ \E r \in 1..MaxRequests :
          /\ init_pc[r] = "check"
          /\ init_pc' = [init_pc EXCEPT ![r] = IF _startup_done THEN "done" ELSE "lock"]
    /\ UNCHANGED <<planner_vars, adapter_vars>>
    /\ UNCHANGED <<flight_num, icao_log, _startup_done, _startup_lock, update_threads,
                   flask_cache, search_log, events>>

\* app.py:81, with _startup_lock: the request waits until the lock is free
AcquireLock ==
    /\ \E r \in 1..MaxRequests :
          /\ init_pc[r] = "lock"
          /\ _startup_lock = 0
          /\ _startup_lock' = r
          /\ init_pc' = [init_pc EXCEPT ![r] = "locked"]
    /\ UNCHANGED <<planner_vars, adapter_vars>>
    /\ UNCHANGED <<flight_num, icao_log, _startup_done, update_threads,
                   flask_cache, search_log, events>>

\* the locked section without its second test of the flag
LockedCheck_NoRecheck ==
    /\ \E r \in 1..MaxRequests :
          /\ init_pc[r] = "locked"
          /\ init_pc' = [init_pc EXCEPT ![r] = "set"]
    /\ UNCHANGED <<planner_vars, adapter_vars>>
    /\ UNCHANGED <<flight_num, icao_log, _startup_done, _startup_lock, update_threads,
                   flask_cache, search_log, events>>

\* app.py:82-83, if _startup_done: return (leaving the with block frees the lock)
LockedCheck ==
    /\ \E r \in 1..MaxRequests :
          /\ init_pc[r] = "locked"
          /\ IF _startup_done
             THEN /\ init_pc' = [init_pc EXCEPT ![r] = "done"]
                  /\ _startup_lock' = 0
             ELSE /\ init_pc' = [init_pc EXCEPT ![r] = "set"]
                  /\ UNCHANGED _startup_lock
    /\ UNCHANGED <<planner_vars, adapter_vars>>
    /\ UNCHANGED <<flight_num, icao_log, _startup_done, update_threads,
                   flask_cache, search_log, events>>

\* app.py:84, _startup_done = True
SetStartupDone ==
    /\ \E r \in 1..MaxRequests :
          /\ init_pc[r] = "set"
          /\ init_pc' = [init_pc EXCEPT ![r] = "start"]
    /\ _startup_done' = TRUE
    /\ UNCHANGED <<planner_vars, adapter_vars>>
    /\ UNCHANGED <<flight_num, icao_log, _startup_lock, update_threads,
                   flask_cache, search_log, events>>

\* app.py:85-86, threading.Thread(target=update_if_needed, daemon=True).start(),
\* then the end of the with block
StartUpdateThread ==
    /\ \E r \in 1..MaxRequests :
          /\ init_pc[r] = "start"
          /\ init_pc' = [init_pc EXCEPT ![r] = "done"]
    /\ update_threads' = update_threads + 1
    /\ _startup_lock' = 0
    /\ UNCHANGED <<planner_vars, adapter_vars>>
    /\ UNCHANGED <<flight_num, icao_log, _startup_done, flask_cache, search_log, events>>

LazyInitSpec ==
    LazyInit /\ [][FastCheck \/ AcquireLock \/ LockedCheck \/ SetStartupDone
                      \/ StartUpdateThread]_vars

-----------------------------------------------------------------------------
(* /api/search and its cache, app.py:210-301 and 561-565.  A string is held
   as the sequence of its pieces, where an airport code, a date and a trip
   type are one piece each and ',' and '_' are pieces of their own; the
   cache is the function from the keys it holds to their values. *)

MaxSearches == 2

\* ','.join(sorted(list)) for a list of up to two airport codes
sorted_join(list) ==
    LET rank(a) == CHOOSE i \in 1..3 : <<"DEN", "LAS", "MCO">>[i] = a
    IN  IF Len(list) = 0 THEN <<>>
        ELSE IF Len(list) = 1 THEN list
        ELSE IF rank(list[2]) < rank(list[1]) THEN <<list[2], ",", list[1]>>
        ELSE <<list[1], ",", list[2]>>

\* the key built from the lists as the request gave them
get_cache_key_Unsorted(origins_arg, destinations_arg, dep_date, ret_date, trip_type) ==
    LET str(x) == IF x = None THEN <<"None">> ELSE x.v
        join(list) == IF Len(list) = 2 THEN <<list[1], ",", list[2]>> ELSE list
    IN  <<"flights_">> \o join(origins_arg) \o <<"_">> \o join(destinations_arg)
            \o <<"_">> \o str(dep_date) \o <<"_">> \o str(ret_date) \o <<"_">> \o str(trip_type)

\* app.py:111-113; an f-string formats None as 'None'
get_cache_key(origins_arg, destinations_arg, dep_date, ret_date, trip_type) ==
    LET str(x) == IF x = None THEN <<"None">> ELSE x.v
    IN  <<"flights_">> \o sorted_join(origins_arg) \o <<"_">> \o sorted_join(destinations_arg)
            \o <<"_">> \o str(dep_date) \o <<"_">> \o str(ret_date) \o <<"_">> \o str(trip_type)

\* the test taking an empty list for a miss
CacheHit_Truthy(cached_result) == cached_result # None /\ cached_result # List(<<>>)

\* app.py:243, if cached_result is not None
CacheHit(cached_result) == cached_result # None

\* an empty cache; adapter says whether a flight client is configured
\* (app.py:257) or the mock generator answers (app.py:280)
CacheInit ==
    /\ PlannerIdle
    /\ adapter \in {"serpapi", "mock"}
    /\ raw = None
    /\ flight = None
    /\ route_i = 0
    /\ adapter_all_flights = <<>>
    /\ route_log = <<>>
    /\ blackout_log = <<>>
    /\ ServiceIdle

\* app.py:210-301, one request to /api/search; first and second are what the
\* two calls of flight_client.search_flights would return
SearchFlights ==
    /\ Len(search_log) < MaxSearches
    /\ \E request \in [ origins       : {<<>>, <<"DEN", "LAS">>, <<"LAS", "DEN">>},
                        destinations  : {<<"MCO">>},
                        tripType      : {None, Str(<<"one-way">>)},
                        departureDate : {Str(<<"2026-03-15">>), Str(<<"2026-03-16">>)},
                        returnDate    : {None, Str(<<"None">>), Str(<<"2026-03-18">>)} ],
          first \in {List(<<>>), List(<<"F9 1001">>)},
          second \in {[t |-> "raises"], List(<<>>), List(<<"UA 1203">>)} :
          LET trip_type == IF request.tripType = None THEN Str(<<"round-trip">>)
                           ELSE request.tripType
              cache_key == get_cache_key(request.origins, request.destinations,
                                         request.departureDate, request.returnDate, trip_type)
              cached_result == IF cache_key \in DOMAIN flask_cache
                               THEN flask_cache[cache_key] ELSE None
              flights == IF adapter = "mock" THEN List(<<"F9 1001">>)
                         ELSE IF first # List(<<>>) THEN first ELSE second
              searches == IF adapter = "mock" THEN 0 ELSE IF first # List(<<>>) THEN 1 ELSE 2
          IN  IF request.origins = <<>>
              THEN /\ search_log' = Append(search_log,
                          [kind |-> "search", request |-> request, key |-> <<>>,
                           status |-> 400, cached |-> FALSE, flights |-> List(<<>>),
                           searches |-> 0])
                   /\ UNCHANGED flask_cache
              ELSE IF CacheHit(cached_result)
              THEN /\ search_log' = Append(search_log,
                          [kind |-> "search", request |-> request, key |-> cache_key,
                           status |-> 200, cached |-> TRUE, flights |-> cached_result,
                           searches |-> 0])
                   /\ UNCHANGED flask_cache
              ELSE IF flights.t = "raises"
              THEN /\ search_log' = Append(search_log,
                          [kind |-> "search", request |-> request, key |-> cache_key,
                           status |-> 500, cached |-> FALSE, flights |-> List(<<>>),
                           searches |-> searches])
                   /\ UNCHANGED flask_cache
              ELSE /\ search_log' = Append(search_log,
                          [kind |-> "search", request |-> request, key |-> cache_key,
                           status |-> 200, cached |-> FALSE, flights |-> flights,
                           searches |-> searches])
                   /\ flask_cache' = [k \in DOMAIN flask_cache \cup {cache_key} |->
                                         IF k = cache_key THEN flights ELSE flask_cache[k]]
    /\ UNCHANGED <<planner_vars, adapter_vars>>
    /\ UNCHANGED <<flight_num, icao_log, _startup_done, _startup_lock, init_pc,
                   update_threads, events>>

\* app.py:561-565, /api/cache/clear
ClearCache ==
    /\ Len(search_log) < MaxSearches
    /\ flask_cache' = <<>>
    /\ search_log' = Append(search_log,
           [kind |-> "clear", request |-> None, key |-> <<>>, status |-> 200,
            cached |-> FALSE, flights |-> List(<<>>), searches |-> 0])
    /\ UNCHANGED <<planner_vars, adapter_vars>>
    /\ UNCHANGED <<flight_num, icao_log, _startup_done, _startup_lock, init_pc,
                   update_threads, events>>

CacheSpec == CacheInit /\ [][SearchFlights \/ ClearCache]_vars

-----------------------------------------------------------------------------
(* /api/search/stream, app.py:326-408: the generator of one stream.  events
   is the sequence of the events yielded so far. *)

\* one stream is about to start, with or without a flight client
StreamInit ==
    /\ PlannerIdle
    /\ adapter \in {"serpapi", "mock"}
    /\ raw = None
    /\ flight = None
    /\ route_i = 0
    /\ adapter_all_flights = <<>>
    /\ route_log = <<>>
    /\ blackout_log = <<>>
    /\ ServiceIdle

\* app.py:338-339 and 367-368: if origin == destination: continue
StreamSkipSameAirport ==
    /\ route_i < Len(RoutePairs)
    /\ RoutePairs[route_i + 1][1] = RoutePairs[route_i + 1][2]
    /\ route_i' = route_i + 1
    /\ UNCHANGED adapter_all_flights
    /\ UNCHANGED <<route_log, events>>
    /\ UNCHANGED planner_vars
    /\ UNCHANGED <<adapter, raw, flight, blackout_log>>
    /\ UNCHANGED <<flight_num, icao_log, _startup_done, _startup_lock, init_pc,
                   update_threads, flask_cache, search_log>>

\* the loop body yielding an event for every route
StreamRoute_EventAlways ==
    /\ adapter = "serpapi"
    /\ route_i < Len(RoutePairs)
    /\ RoutePairs[route_i + 1][1] # RoutePairs[route_i + 1][2]
    /\ \E answer \in UpstreamAnswers, py311 \in BOOLEAN :
          LET result == SerpApi_search_route(answer, AnchorDate, py311)
              route_flights == IF result.raised THEN <<>> ELSE result.flights
          IN  /\ route_log' = Append(route_log,
                     [idx |-> route_i + 1, answer |-> answer, flights |-> route_flights,
                      raised |-> result.raised])
              /\ IF TRUE
                 THEN /\ adapter_all_flights' = adapter_all_flights \o route_flights
                      /\ events' = Append(events,
                             [complete |-> FALSE, route |-> route_i + 1,
                              flights |-> route_flights, count |-> Len(route_flights),
                              total_flights |-> 0])
                 ELSE UNCHANGED <<adapter_all_flights, events>>
    /\ route_i' = route_i + 1
    /\ UNCHANGED planner_vars
    /\ UNCHANGED <<adapter, raw, flight, blackout_log>>
    /\ UNCHANGED <<flight_num, icao_log, _startup_done, _startup_lock, init_pc,
                   update_threads, flask_cache, search_log>>

\* app.py:341-360: one pass of the loop body with a flight client
StreamRoute ==
    /\ adapter = "serpapi"
    /\ route_i < Len(RoutePairs)
    /\ RoutePairs[route_i + 1][1] # RoutePairs[route_i + 1][2]
    /\ \E answer \in UpstreamAnswers, py311 \in BOOLEAN :
          LET result == SerpApi_search_route(answer, AnchorDate, py311)
              route_flights == IF result.raised THEN <<>> ELSE result.flights
          IN  /\ route_log' = Append(route_log,
                     [idx |-> route_i + 1, answer |-> answer, flights |-> route_flights,
                      raised |-> result.raised])
              /\ IF route_flights # <<>>
                 THEN /\ adapter_all_flights' = adapter_all_flights \o route_flights
                      /\ events' = Append(events,
                             [complete |-> FALSE, route |-> route_i + 1,
                              flights |-> route_flights, count |-> Len(route_flights),
                              total_flights |-> 0])
                 ELSE UNCHANGED <<adapter_all_flights, events>>
    /\ route_i' = route_i + 1
    /\ UNCHANGED planner_vars
    /\ UNCHANGED <<adapter, raw, flight, blackout_log>>
    /\ UNCHANGED <<flight_num, icao_log, _startup_done, _startup_lock, init_pc,
                   update_threads, flask_cache, search_log>>

\* app.py:370-400: one pass of the loop body without a flight client; n is
\* random.randint(1, 3)
StreamMockRoute ==
    /\ adapter = "mock"
    /\ route_i < Len(RoutePairs)
    /\ RoutePairs[route_i + 1][1] # RoutePairs[route_i + 1][2]
    /\ \E n \in 1..3 :
          LET route_flights == [k \in 1..n |->
                                   [origin |-> RoutePairs[route_i + 1][1],
                                    destination |-> RoutePairs[route_i + 1][2],
                                    airline |-> "Frontier Airlines"]]
          IN  /\ adapter_all_flights' = adapter_all_flights \o route_flights
              /\ events' = Append(events,
                     [complete |-> FALSE, route |-> route_i + 1,
                      flights |-> route_flights, count |-> Len(route_flights),
                              total_flights |-> 0])
              /\ route_log' = Append(route_log,
                     [idx |-> route_i + 1, answer |-> None, flights |-> route_flights,
                      raised |-> FALSE])
    /\ route_i' = route_i + 1
    /\ UNCHANGED planner_vars
    /\ UNCHANGED <<adapter, raw, flight, blackout_log>>
    /\ UNCHANGED <<flight_num, icao_log, _startup_done, _startup_lock, init_pc,
                   update_threads, flask_cache, search_log>>

\* app.py:402-408: the completion event, after which the generator ends
StreamComplete ==
    /\ route_i = Len(RoutePairs)
    /\ \A i \in 1..Len(events) : ~events[i].complete
    /\ events' = Append(events,
           [complete |-> TRUE, route |-> 0, flights |-> <<>>, count |-> 0,
            total_flights |-> Len(adapter_all_flights)])
    /\ UNCHANGED <<route_i, adapter_all_flights, route_log>>
    /\ UNCHANGED planner_vars
    /\ UNCHANGED <<adapter, raw, flight, blackout_log>>
    /\ UNCHANGED <<flight_num, icao_log, _startup_done, _startup_lock, init_pc,
                   update_threads, flask_cache, search_log>>

StreamSpec ==
    StreamInit
        /\ [][StreamSkipSameAirport \/ StreamRoute \/ StreamMockRoute \/ StreamComplete]_vars

-----------------------------------------------------------------------------
(* Properties of search_flights *)

\* the upstream call of a route raised or returned an error status
Failed(answer) == answer.raises \/ answer.status # 200

RECURSIVE LoggedFlights(_)
\* the legs the first n calls of the log returned, in order
LoggedFlights(n) ==
    IF n = 0 THEN <<>> ELSE LoggedFlights(n - 1) \o route_log[n].flights

\* C14. No failure of one leg fetch aborts a search: a route whose upstream
\* call raises or returns an error status contributes an empty list, the
\* remaining routes are still queried, and the legs of the routes that
\* succeeded are what search_flights holds for its caller.
C14_FailedRouteDoesNotAbort ==
    /\ \A j \in 1..Len(route_log) :
          Failed(route_log[j].answer) => route_log[j].flights = <<>>
    /\ { route_log[j].idx : j \in 1..Len(route_log) } =
          { i \in 1..route_i : RoutePairs[i][1] # RoutePairs[i][2] }
    /\ \A j \in 1..Len(route_log), k \in 1..Len(route_log) :
          j < k => route_log[j].idx < route_log[k].idx
    /\ adapter_all_flights = LoggedFlights(Len(route_log))
    /\ \A j \in 1..Len(route_log) :
          /\ ~Failed(route_log[j].answer)
          /\ ~route_log[j].answer.error
          /\ route_log[j].answer.results = <<BaseResult>>
          => /\ Len(route_log[j].flights) = 1
             /\ route_log[j].flights[1].t = "flight"

\* a search that ended: one route raised, another returned status 500, and the
\* legs of a route queried after them are in the returned list
C14_Witness ==
    /\ route_i = Len(RoutePairs)
    /\ Len(route_log) = 3
    /\ route_log[1].answer.raises
    /\ ~route_log[2].answer.raises /\ route_log[2].answer.status = 500
    /\ route_log[2].answer.results # <<>>
    /\ ~Failed(route_log[3].answer)
    /\ Len(adapter_all_flights) = 1
    /\ adapter_all_flights = route_log[3].flights

-----------------------------------------------------------------------------
(* Properties of the flight records the adapters emit *)

Emitted == flight # None /\ flight.t = "flight"

\* C15. A record whose operating carrier is not the target carrier (Frontier,
\* F9) has gowild_eligible = false, whatever its fare class, price and seat
\* count, in every adapter that emits the flag.
C15_OtherCarrierNeverEligible ==
    /\ Emitted
    /\ flight.gowild_eligible # NoKey
    /\ raw.carrier # None /\ raw.carrier # Str("F9")
    => flight.gowild_eligible = Bool(FALSE)

\* the fare class is "economy" or "basic economy", in either letter case
FareIsEconomy == raw.fare_class \in {Str("economy"), Str("Economy"),
                                     Str("basic economy"), Str("Basic Economy")}

\* the rule of the contract: the carrier matches and one of the three holds
EligibilityRule ==
    /\ raw.carrier = Str("F9")
    /\ \/ FareIsEconomy
       \/ raw.price # None /\ raw.price.v <= 99
       \/ raw.seats # None /\ raw.seats.v <= 5

Unparseable(x) == x.t = "text" /\ x.kind # "" /\ ~ValidDateTime(x)

\* C17. For a time value that cannot be parsed the normalizer does not raise:
\* it emits the record with the anchor date as the date and the raw string as
\* the display time.
C17_UnparseableFallsBack ==
    /\ adapter \in {"serpapi", "aerodatabox", "aviationstack"}
    /\ flight # None
    /\ raw.segments > 0
    /\ Unparseable(raw.dep_time)
    => /\ flight.t = "flight"
       /\ flight.departure_date = AnchorDate
       /\ flight.departure_time = raw.dep_time

\* the accepted shapes: ISO-8601 with a 'T', with or without seconds, with or
\* without a UTC offset, and "YYYY-MM-DD HH:MM"
AcceptedShape(x) ==
    /\ x.t = "text"
    /\ x.kind = "datetime"
    /\ x.date.m \in 1..12 /\ x.date.d \in 1..28
    /\ x.h \in 0..23 /\ x.mi \in 0..59 /\ x.s \in -1..59
    /\ \/ x.sep = "T" /\ x.off \in {"", "+01:00", "-07:00"}
       \/ x.sep = " " /\ x.s = -1 /\ x.off = ""

\* the 12-hour-clock reading of an hour of the day
Hour12(h) == IF h \in {0, 12} THEN 12 ELSE IF h > 12 THEN h - 12 ELSE h

\* C18. A well-formed time string of an accepted shape is parsed into its own
\* calendar date and its 12-hour-clock display time; it does not take the
\* fallback path.
C18_AcceptedShapesParsed ==
    /\ adapter \in {"serpapi", "aerodatabox"}
    /\ flight # None
    /\ raw.segments > 0
    /\ AcceptedShape(raw.dep_time)
    => /\ flight.t = "flight"
       /\ flight.departure_date = raw.dep_time.date
       /\ flight.departure_time =
             [t |-> "time12", h |-> Hour12(raw.dep_time.h), mi |-> raw.dep_time.mi,
              p |-> IF raw.dep_time.h >= 12 THEN "PM" ELSE "AM"]

\* the upstream declared no duration and sent no departure or arrival instant
NoDurationInfo ==
    /\ raw.total_duration = None
    /\ raw.dep_time = None /\ raw.arr_time = None
    /\ raw.dep_utc = None /\ raw.arr_utc = None

\* C19. When the upstream declares no duration and the instants are not
\* available, the record carries a sentinel and not a formatted duration such
\* as "0m" or "0h 0m".
C19_UnknownDurationSentinel ==
    Emitted /\ flight.duration # NoKey /\ NoDurationInfo =>
        flight.duration.t # "dur"

\* the optional fields of a record and the upstream content each comes from
OptionalFields ==
    { <<"price", "price">>, <<"aircraft", "aircraft">>, <<"travel_class", "fare_class">>,
      <<"legroom", "legroom">>, <<"booking_token", "booking">>,
      <<"seats_remaining", "seats">> }

\* C20. An optional field the upstream does not provide is null in the record:
\* never an empty string, a zero or another placeholder.
C20_MissingOptionalIsNull ==
    Emitted =>
        \A f \in OptionalFields :
            raw[f[2]] = None /\ flight[f[1]] # NoKey => flight[f[1]] = None

\* the duration of the record is a formatted "{hours}h {minutes}m"
HasDuration == Emitted /\ flight.duration # NoKey /\ flight.duration.t = "dur"

\* both Kiwi timestamps are numbers
BothInstants == raw.dep_utc # None /\ raw.arr_utc # None
                    /\ raw.dep_utc.t = "num" /\ raw.arr_utc.t = "num"

\* C21. Every emitted record has a non-negative duration, and a duration
\* derived from timestamps is the arrival instant minus the departure instant
\* in whole minutes, also when one timestamp is missing or the arrival
\* precedes the departure.
C21_DurationNonNegative ==
    HasDuration =>
        /\ flight.duration.h >= 0 /\ flight.duration.m >= 0
        /\ adapter = "kiwi" /\ BothInstants =>
              flight.duration.h * 60 + flight.duration.m
                  = (raw.arr_utc.v - raw.dep_utc.v) \div 60

\* C22. An itinerary of n >= 1 segments gives stops = max(0, n - 1): never
\* negative, 0 exactly for one segment; an itinerary with no segments gives no
\* record with a negative stop count.
C22_StopsIsSegmentsMinusOne ==
    Emitted /\ adapter \in {"serpapi", "kiwi"} =>
        /\ flight.stops.t = "num"
        /\ flight.stops.v >= 0
        /\ raw.segments >= 1 =>
              /\ flight.stops.v = raw.segments - 1
              /\ (flight.stops.v = 0) = (raw.segments = 1)

\* a two-segment itinerary converted by each of the two adapters' rule
C22_Witness ==
    /\ Emitted
    /\ adapter \in {"serpapi", "kiwi"}
    /\ raw.segments = 2
    /\ flight.stops = Num(1)

-----------------------------------------------------------------------------
(* Further properties of the trip planner *)

\* the search loop of the handler is under way or over
Searching == pc \in {"while", "for", "return"} \/ (pc = "done" /\ response.status = 200)

\* C24. The steps of one search are strictly sequential: for each offset the
\* 5 fetches are made one after another and are over before the engine is
\* invoked for it, the engine is invoked exactly once per offset and on the
\* whole accumulated pool, and no fetch for the next offset starts before the
\* engine's result for this one is known.
C24_StrictlySequential ==
    Searching =>
        /\ engine_calls = days_searched + (IF pc \in {"return", "done"} /\ optimal_trips # <<>>
                                           THEN 1 ELSE 0)
        /\ FLIGHT_API_ENABLED =>
              fetch_count = 5 * engine_calls + (IF pc = "for" THEN ri - 1 ELSE 0)
        /\ FLIGHT_API_ENABLED /\ pc = "for" => Len(fetch_log) = ri - 1
        /\ FLIGHT_API_ENABLED /\ pc # "for" /\ engine_calls > 0 => Len(fetch_log) = 5
        /\ pc # "for" => engine_log.pool = fetched
        /\ pc = "for" => engine_log.pool \o batch_flights = fetched

\* the engine was invoked for a second offset, on legs of both offsets
C24_Witness ==
    /\ pc = "while"
    /\ FLIGHT_API_ENABLED
    /\ engine_calls = 2
    /\ fetch_count = 10
    /\ Len(engine_log.pool) > Len(batch_flights)
    /\ batch_flights # <<>>

\* C27. For every offset examined, each of the 5 return dates passed to the
\* leg fetch is on or after the departure date of that offset.
C27_ReturnNotBeforeDeparture ==
    \A i \in 1..Len(fetch_log) :
        fetch_log[i].return_date.day >= fetch_log[i].departure_date.day

-----------------------------------------------------------------------------
(* Properties of the airline-code normalization *)

\* three capital letters followed by digits and nothing else
OperatorShape(x) ==
    /\ Len(x) >= 4
    /\ \A i \in 1..3 : x[i] \in {"A", "D", "F", "L", "T"}
    /\ \A i \in 4..Len(x) : x[i] \in {"3", "9"}

\* C23. A three-letter operator prefix followed by digits is replaced by its
\* two-letter commercial code when the prefix is in the table, the digits
\* kept; a flight number whose prefix is not in the table, or that does not
\* have that shape, is returned unchanged; so normalizing twice gives what
\* normalizing once gives.
C23_IcaoNormalization ==
    \A j \in 1..Len(icao_log) :
        LET arg == icao_log[j].arg
            result == icao_log[j].result
        IN  /\ IF OperatorShape(arg) /\ SubSeq(arg, 1, 3) \in DOMAIN ICAO_TO_IATA
               THEN result = ICAO_TO_IATA[SubSeq(arg, 1, 3)] \o SubSeq(arg, 4, Len(arg))
               ELSE result = arg
            /\ j > 1 /\ arg = icao_log[j - 1].result => result = arg

-----------------------------------------------------------------------------
(* Properties of the lazy startup *)

\* C25. Under any interleaving of concurrent first requests the lazy startup
\* runs at most once: the blackout-update thread is started exactly once, and
\* _startup_done, once true, never becomes false again.
C25_StartupOnce ==
    /\ [](/\ update_threads <= 1
          /\ Cardinality({r \in 1..MaxRequests : init_pc[r] \in {"set", "start"}}) <= 1
          /\ update_threads = 1 => _startup_done
          /\ (\A r \in 1..MaxRequests : init_pc[r] = "done") => update_threads = 1)
    /\ [][_startup_done => _startup_done']_vars

\* a request found the flag set only after it had waited for the lock, behind
\* the request that started the thread
C25_Witness ==
    /\ update_threads = 1
    /\ \E r \in 1..MaxRequests : init_pc[r] = "locked"
    /\ \E r \in 1..MaxRequests : init_pc[r] = "done"

-----------------------------------------------------------------------------
(* Properties of the search cache *)

\* the j-th logged request was answered, after the i-th, with no clear between
AnsweredThenAsked(i, j) ==
    /\ i < j
    /\ search_log[i].kind = "search" /\ search_log[i].status = 200
    /\ search_log[j].kind = "search" /\ search_log[j].status # 400
    /\ search_log[i].key = search_log[j].key
    /\ \A k \in i..j : search_log[k].kind # "clear"

\* C26. Once a request was answered from upstream or mock, its list is stored
\* under its cache key, and a later request with the same key, with no clear
\* in between, is answered with that list and cached = true without any
\* upstream search, also when the list is empty.
C26_CachedAnswerReused ==
    /\ \A i \in 1..Len(search_log), j \in 1..Len(search_log) :
          AnsweredThenAsked(i, j) =>
              /\ search_log[j].status = 200
              /\ search_log[j].cached
              /\ search_log[j].flights = search_log[i].flights
              /\ search_log[j].searches = 0
    /\ Len(search_log) > 0 =>
          LET last == search_log[Len(search_log)]
          IN  last.kind = "search" /\ last.status = 200 =>
                  /\ last.key \in DOMAIN flask_cache
                  /\ flask_cache[last.key] = last.flights

\* an empty list answered from upstream was served again from the cache
C26_Witness ==
    /\ Len(search_log) = 2
    /\ AnsweredThenAsked(1, 2)
    /\ ~search_log[1].cached
    /\ search_log[1].searches = 2
    /\ search_log[1].flights = List(<<>>)
    /\ search_log[2].cached

\* the effective trip type of a logged request
TripTypeOf(entry) ==
    IF entry.request.tripType = None THEN Str(<<"round-trip">>) ELSE entry.request.tripType

\* the two logged requests have the same origins and the same destinations,
\* in whatever order
SameAirports(a, b) ==
    /\ {a.request.origins[i] : i \in 1..Len(a.request.origins)}
          = {b.request.origins[i] : i \in 1..Len(b.request.origins)}
    /\ {a.request.destinations[i] : i \in 1..Len(a.request.destinations)}
          = {b.request.destinations[i] : i \in 1..Len(b.request.destinations)}

\* C30. The cache key is canonical in the origin and destination sets: any
\* permutation of the two lists, with the same departure date, return date and
\* trip type, gives the same key; and two requests that differ in departure
\* date, return date or trip type get different keys.
C30_CacheKeyCanonical ==
    \A i \in 1..Len(search_log), j \in 1..Len(search_log) :
        LET a == search_log[i]
            b == search_log[j]
            same_rest == /\ a.request.departureDate = b.request.departureDate
                         /\ a.request.returnDate = b.request.returnDate
                         /\ TripTypeOf(a) = TripTypeOf(b)
        IN  a.kind = "search" /\ b.kind = "search" /\ a.status # 400 /\ b.status # 400 =>
                /\ SameAirports(a, b) /\ same_rest => a.key = b.key
                /\ ~same_rest => a.key # b.key

-----------------------------------------------------------------------------
(* Properties of the streaming search *)

\* the sum of the count fields of the route events among the first n events
RECURSIVE SumOfCounts(_)
SumOfCounts(n) ==
    IF n = 0 THEN 0
    ELSE SumOfCounts(n - 1) + (IF events[n].complete THEN 0 ELSE events[n].count)

\* the stream has yielded its completion event
StreamCompleted == \E i \in 1..Len(events) : events[i].complete

\* C29. The stream emits one completion event, as its last event, after every
\* route event; its total_flights is the sum of the counts of the route events;
\* a route whose upstream search raises yields no route event, and the stream
\* goes on to the later routes and to the completion event.
C29_StreamCompletion ==
    /\ \A i \in 1..Len(events) : events[i].complete =>
          /\ i = Len(events)
          /\ events[i].total_flights = SumOfCounts(Len(events))
    /\ \A r \in 1..Len(route_log) : route_log[r].raised =>
          \A i \in 1..Len(events) : events[i].complete \/ events[i].route # route_log[r].idx
    /\ \A i \in 1..Len(events), j \in 1..Len(events) :
          i < j /\ ~events[j].complete => events[i].route < events[j].route
    /\ ~StreamCompleted =>
          ENABLED (StreamSkipSameAirport \/ StreamRoute \/ StreamMockRoute \/ StreamComplete)
    /\ StreamCompleted =>
          /\ route_i = Len(RoutePairs)
          /\ ~ENABLED (StreamSkipSameAirport \/ StreamRoute \/ StreamMockRoute \/ StreamComplete)

\* a stream that ended after a route raised and a later route yielded flights
C29_Witness ==
    /\ StreamCompleted
    /\ \E r \in 1..Len(route_log), i \in 1..Len(events) :
          /\ route_log[r].raised
          /\ ~events[i].complete
          /\ events[i].route > route_log[r].idx
    /\ events[Len(events)].total_flights > 0

====
